---- MODULE Spec2Model ----
(***************************************************************************)
(* uniUnit: a dimension-remapping layer over a units registry.             *)
(*                                                                         *)
(* The module models src/uniunit/uniunit.py: the dimension tables, the     *)
(* remapper uniUnit (constructor, _get_target_unit, get_new_unit,          *)
(* to_unit), the UnitSystem wrapper with its process-wide preset registry, *)
(* and quick_convert.  The units registry (pint) is modelled by the part   *)
(* of its unit table the program uses: for each unit its dimensionality    *)
(* and its scale to the SI base, with exact arithmetic.                    *)
(***************************************************************************)
EXTENDS Integers, Sequences, FiniteSets, TLC

(***************************************************************************)
(* Exact arithmetic for magnitudes and scale factors.  Conversion only     *)
(* multiplies and divides, so a number is kept as its sign and the         *)
(* exponents of the primes 2, 3, 5 and 127 and of 45359237 (the pound is   *)
(* 0.45359237 kg, the inch 0.0254 m): every value has one representation   *)
(* and no product overflows.                                               *)
(***************************************************************************)
R(sign, p2, p3, p5, p127, plb) ==
    [sign |-> sign, p2 |-> p2, p3 |-> p3, p5 |-> p5, p127 |-> p127, plb |-> plb]

Zero == R(0, 0, 0, 0, 0, 0)
One == R(1, 0, 0, 0, 0, 0)

\* 10^k
Ten(k) == R(1, k, 0, k, 0, 0)

RECURSIVE Smooth(_)
\* i > 0 has no prime factor other than 2, 3 and 5
Smooth(i) ==
    IF i = 1 THEN TRUE
    ELSE IF i % 2 = 0 THEN Smooth(i \div 2)
    ELSE IF i % 3 = 0 THEN Smooth(i \div 3)
    ELSE IF i % 5 = 0 THEN Smooth(i \div 5)
    ELSE FALSE

RECURSIVE RInt(_)
\* the integer i > 0 as a number, for Smooth(i)
RInt(i) ==
    IF i % 2 = 0 THEN LET r == RInt(i \div 2) IN [r EXCEPT !.p2 = @ + 1]
    ELSE IF i % 3 = 0 THEN LET r == RInt(i \div 3) IN [r EXCEPT !.p3 = @ + 1]
    ELSE IF i % 5 = 0 THEN LET r == RInt(i \div 5) IN [r EXCEPT !.p5 = @ + 1]
    ELSE One

RMul(x, y) ==
    IF x.sign = 0 \/ y.sign = 0 THEN Zero
    ELSE R(x.sign * y.sign, x.p2 + y.p2, x.p3 + y.p3, x.p5 + y.p5,
           x.p127 + y.p127, x.plb + y.plb)

\* 1/x, for x # 0
RInv(x) == R(x.sign, -x.p2, -x.p3, -x.p5, -x.p127, -x.plb)

RECURSIVE RPow(_, _)
RPow(x, k) ==
    IF k = 0 THEN One
    ELSE IF k < 0 THEN RInv(RPow(x, -k))
    ELSE RMul(x, RPow(x, k - 1))

RDiv(x, y) == RMul(x, RInv(y))

(***************************************************************************)
(* The units registry (ureg = pint.UnitRegistry()).  Each unit has a       *)
(* dimensionality over the registry's dimension tags and a scale to the    *)
(* SI base.  The registry's tag for amount of substance is "[substance]".  *)
(***************************************************************************)
NoUnits == [u \in {} |-> 0]

Dim(tag) == tag :> 1

\* the tags of the registry's base dimensions, in the order sorted() gives strings
RegistryTags ==
    << "[current]", "[length]", "[luminosity]", "[mass]", "[substance]",
       "[temperature]", "[time]" >>

U(dims, scale) == [dims |-> dims, scale |-> scale]

UNITS ==
    "kilogram"    :> U(Dim("[mass]"), One)
 @@ "gram"        :> U(Dim("[mass]"), Ten(-3))
 @@ "milligram"   :> U(Dim("[mass]"), Ten(-6))
 @@ "microgram"   :> U(Dim("[mass]"), Ten(-9))
 @@ "pound"       :> U(Dim("[mass]"), R(1, -8, 0, -8, 0, 1))
 @@ "meter"       :> U(Dim("[length]"), One)
 @@ "centimeter"  :> U(Dim("[length]"), Ten(-2))
 @@ "millimeter"  :> U(Dim("[length]"), Ten(-3))
 @@ "nanometer"   :> U(Dim("[length]"), Ten(-9))
 @@ "inch"        :> U(Dim("[length]"), R(1, -3, 0, -4, 1, 0))
 @@ "foot"        :> U(Dim("[length]"), R(1, -1, 1, -4, 1, 0))
 @@ "second"      :> U(Dim("[time]"), One)
 @@ "millisecond" :> U(Dim("[time]"), Ten(-3))
 @@ "picosecond"  :> U(Dim("[time]"), Ten(-12))
 @@ "minute"      :> U(Dim("[time]"), R(1, 2, 1, 1, 0, 0))
 @@ "ampere"      :> U(Dim("[current]"), One)
 @@ "milliampere" :> U(Dim("[current]"), Ten(-3))
 @@ "nanoampere"  :> U(Dim("[current]"), Ten(-9))
 @@ "kelvin"      :> U(Dim("[temperature]"), One)
 @@ "mole"        :> U(Dim("[substance]"), One)
 @@ "nanomole"    :> U(Dim("[substance]"), Ten(-9))
 @@ "candela"     :> U(Dim("[luminosity]"), One)
 @@ "dozen"       :> U(NoUnits, R(1, 2, 1, 0, 0, 0))
 @@ "joule"       :> U("[mass]" :> 1 @@ "[length]" :> 2 @@ "[time]" :> -2, One)

\* the symbols the registry resolves to a unit name
SYMBOLS ==
    "kg" :> "kilogram" @@ "g" :> "gram" @@ "mg" :> "milligram"
 @@ "m" :> "meter" @@ "cm" :> "centimeter" @@ "mm" :> "millimeter"
 @@ "s" :> "second" @@ "ms" :> "millisecond" @@ "A" :> "ampere"
 @@ "K" :> "kelvin" @@ "mol" :> "mole" @@ "cd" :> "candela" @@ "J" :> "joule"

Undefined == "UndefinedUnitError"

\* mutant of ParseUnit: only the long names of the units are known
ParseUnitNamesOnly(name) ==
    IF name \in DOMAIN UNITS THEN name ELSE Undefined

\* ureg(name): the unit a name or symbol stands for, or Undefined
ParseUnit(name) ==
    IF name \in DOMAIN UNITS THEN name
    ELSE IF name \in DOMAIN SYMBOLS THEN SYMBOLS[name]
    ELSE Undefined

(***************************************************************************)
(* Composite units: a function from unit names to non-zero exponents.      *)
(***************************************************************************)
ExpOf(uc, u) == IF u \in DOMAIN uc THEN uc[u] ELSE 0

UCMul(a, b) ==
    LET keep == {u \in DOMAIN a \cup DOMAIN b : ExpOf(a, u) + ExpOf(b, u) # 0}
    IN  [u \in keep |-> ExpOf(a, u) + ExpOf(b, u)]

UCPow(a, k) == IF k = 0 THEN NoUnits ELSE [u \in DOMAIN a |-> a[u] * k]

RECURSIVE SumOver(_, _, _)
\* the sum of uc[u] * UNITS[u].dims[tag] over the units u of S
SumOver(S, uc, tag) ==
    IF S = {} THEN 0
    ELSE LET u == CHOOSE x \in S : TRUE
         IN  uc[u] * ExpOf(UNITS[u].dims, tag) + SumOver(S \ {u}, uc, tag)

\* unit.dimensionality: the exponent of every base dimension, zeros omitted
Dimensionality(uc) ==
    LET tags == {RegistryTags[i] : i \in 1..Len(RegistryTags)}
        keep == {t \in tags : SumOver(DOMAIN uc, uc, t) # 0}
    IN  [t \in keep |-> SumOver(DOMAIN uc, uc, t)]

RECURSIVE Factor(_, _)
\* the scale of a composite unit to the SI base
Factor(S, uc) ==
    IF S = {} THEN One
    ELSE LET u == CHOOSE x \in S : TRUE
         IN  RMul(RPow(UNITS[u].scale, uc[u]), Factor(S \ {u}, uc))

\* tuple(sorted(dims.items()))
RECURSIVE SortedFrom(_, _)
SortedFrom(dims, i) ==
    IF i > Len(RegistryTags) THEN << >>
    ELSE IF RegistryTags[i] \in DOMAIN dims
         THEN << << RegistryTags[i], dims[RegistryTags[i]] >> >> \o SortedFrom(dims, i + 1)
         ELSE SortedFrom(dims, i + 1)

SortedItems(dims) == SortedFrom(dims, 1)

\* the orders in which a dict of dimensions can hand out its items
ItemOrders(dims) ==
    LET n == Cardinality(DOMAIN dims)
        items == {<< t, dims[t] >> : t \in DOMAIN dims}
    IN  {q \in [1..n -> items] : \A i, j \in 1..n : q[i] = q[j] => i = j}

\* dims.items(): one of these orders
ItemsOf(dims) == CHOOSE q \in ItemOrders(dims) : TRUE

\* the place of a dimension tag in the order of strings
Rank(tag) == CHOOSE i \in 1..Len(RegistryTags) : RegistryTags[i] = tag

RECURSIVE Insert(_, _)
\* the sorted sequence q with the pair x put in its place
Insert(q, x) ==
    IF q = << >> THEN << x >>
    ELSE IF Rank(x[1]) <= Rank(Head(q)[1]) THEN << x >> \o q
    ELSE << Head(q) >> \o Insert(Tail(q), x)

\* mutant of Sorted: the items are taken in the order the dict hands them out
Unsorted(items) == items

RECURSIVE Sorted(_)
\* sorted(items): the pairs in the order of their tags
Sorted(items) ==
    IF items = << >> THEN << >>
    ELSE Insert(Sorted(Tail(items)), Head(items))

(***************************************************************************)
(* Values handed to and returned by the program: a quantity, a bare        *)
(* number, a list, a tuple, or a raised error.                             *)
(***************************************************************************)
Qty(mag, units) ==
    [type |-> "Quantity", mag |-> mag, units |-> units, items |-> << >>,
     err |-> "", detail |-> << >>]

Num(mag) ==
    [type |-> "Number", mag |-> mag, units |-> NoUnits, items |-> << >>,
     err |-> "", detail |-> << >>]

List(items) ==
    [type |-> "List", mag |-> Zero, units |-> NoUnits, items |-> items,
     err |-> "", detail |-> << >>]

Tuple(items) ==
    [type |-> "Tuple", mag |-> Zero, units |-> NoUnits, items |-> items,
     err |-> "", detail |-> << >>]

Raise(err, detail) ==
    [type |-> "Error", mag |-> Zero, units |-> NoUnits, items |-> << >>,
     err |-> err, detail |-> detail]

None ==
    [type |-> "None", mag |-> Zero, units |-> NoUnits, items |-> << >>,
     err |-> "", detail |-> << >>]

IsError(v) == v.type = "Error"

(***************************************************************************)
(* The dimension tables of the program.                                    *)
(***************************************************************************)
DIMENSION_TO_BASE_UNIT ==
    "[mass]" :> "kilogram" @@ "[length]" :> "meter" @@ "[time]" :> "second"
 @@ "[current]" :> "ampere" @@ "[temperature]" :> "kelvin"
 @@ "[amount]" :> "mole" @@ "[luminosity]" :> "candela"

SHORT_TO_DIMENSION ==
    "kg" :> "[mass]" @@ "g" :> "[mass]" @@ "mg" :> "[mass]" @@ "ug" :> "[mass]"
 @@ "m" :> "[length]" @@ "cm" :> "[length]" @@ "mm" :> "[length]"
 @@ "um" :> "[length]" @@ "nm" :> "[length]" @@ "pm" :> "[length]"
 @@ "fm" :> "[length]" @@ "km" :> "[length]" @@ "dm" :> "[length]"
 @@ "s" :> "[time]" @@ "ms" :> "[time]" @@ "us" :> "[time]"
 @@ "ns" :> "[time]" @@ "ps" :> "[time]"
 @@ "A" :> "[current]" @@ "mA" :> "[current]" @@ "uA" :> "[current]"
 @@ "nA" :> "[current]"
 @@ "K" :> "[temperature]"
 @@ "mol" :> "[amount]" @@ "mmol" :> "[amount]" @@ "kmol" :> "[amount]"
 @@ "cd" :> "[luminosity]"
 @@ "kilogram" :> "[mass]" @@ "gram" :> "[mass]"
 @@ "meter" :> "[length]" @@ "centimeter" :> "[length]"
 @@ "millimeter" :> "[length]"
 @@ "second" :> "[time]" @@ "ampere" :> "[current]"
 @@ "kelvin" :> "[temperature]" @@ "mole" :> "[amount]"
 @@ "candela" :> "[luminosity]"

DIMENSION_TO_SHORT ==
    "[mass]" :> "kg" @@ "[length]" :> "m" @@ "[time]" :> "s"
 @@ "[current]" :> "A" @@ "[temperature]" :> "K" @@ "[amount]" :> "mol"
 @@ "[luminosity]" :> "cd"

\* dim.startswith('[')
StartsWithBracket(dim) ==
    dim \in DOMAIN DIMENSION_TO_SHORT
    \/ dim \in {RegistryTags[i] : i \in 1..Len(RegistryTags)}

\* dim.strip('[]') on a dimension tag of the registry
StripBrackets(dim) ==
    CASE dim = "[current]" -> "current"
      [] dim = "[length]" -> "length"
      [] dim = "[luminosity]" -> "luminosity"
      [] dim = "[mass]" -> "mass"
      [] dim = "[substance]" -> "substance"
      [] dim = "[temperature]" -> "temperature"
      [] dim = "[time]" -> "time"
      [] OTHER -> dim

(***************************************************************************)
(* uniUnit                                                                 *)
(***************************************************************************)
\* mutant of ResolveKey: the key is stored as given
ResolveKeyUnresolved(key) == key

\* SHORT_TO_DIMENSION.get(key, key)
ResolveKey(key) ==
    IF key \in DOMAIN SHORT_TO_DIMENSION THEN SHORT_TO_DIMENSION[key] ELSE key

RECURSIVE BuildUdictKeepingFirst(_, _, _)
\* mutant of BuildUdict: a dimension that is stored already keeps its value
BuildUdictKeepingFirst(items, i, acc) ==
    IF i > Len(items) THEN acc
    ELSE BuildUdictKeepingFirst(items, i + 1,
             acc @@ (ResolveKey(items[i][1]) :> items[i][2]))

RECURSIVE BuildUdict(_, _, _)
\* the loop of uniUnit.__init__ over udict.items(), from item i on
BuildUdict(items, i, acc) ==
    IF i > Len(items) THEN acc
    ELSE LET key == items[i][1]
             value == items[i][2]
             dim == ResolveKey(key)
         IN  IF StartsWithBracket(dim)
             THEN BuildUdict(items, i + 1, (dim :> value) @@ acc)
             ELSE BuildUdict(items, i + 1, (dim :> value) @@ acc)

\* uniUnit.__init__: the stored specification and an empty cache
uniUnit(udict) ==
    [_udict |-> BuildUdict(udict, 1, NoUnits), _target_unit_cache |-> NoUnits]

\* mutant of TargetStr: the specification is not consulted
TargetStrIgnoringUdict(_udict, dim) ==
    IF dim \in DOMAIN DIMENSION_TO_SHORT THEN DIMENSION_TO_SHORT[dim]
    ELSE StripBrackets(dim)

\* self._udict.get(dim, DIMENSION_TO_SHORT.get(dim, dim.strip('[]')))
TargetStr(_udict, dim) ==
    IF dim \in DOMAIN _udict THEN _udict[dim]
    ELSE IF dim \in DOMAIN DIMENSION_TO_SHORT THEN DIMENSION_TO_SHORT[dim]
    ELSE StripBrackets(dim)

\* a synthesized target: ureg.dimensionless is a Unit, any product with a
\* parsed name is a Quantity of magnitude 1
Target(isQuantity, units) ==
    [ok |-> TRUE, isQuantity |-> isQuantity, units |-> units, detail |-> << >>]

TargetError(name) ==
    [ok |-> FALSE, isQuantity |-> FALSE, units |-> NoUnits, detail |-> << name >>]

RECURSIVE SynthesizeSkipping(_, _, _, _)
\* mutant of Synthesize: a name the registry cannot parse contributes nothing
SynthesizeSkipping(_udict, dims_tuple, i, res_unit) ==
    IF i > Len(dims_tuple) THEN res_unit
    ELSE LET parsed == ParseUnit(TargetStr(_udict, dims_tuple[i][1]))
         IN  IF parsed = Undefined
             THEN SynthesizeSkipping(_udict, dims_tuple, i + 1, res_unit)
             ELSE SynthesizeSkipping(_udict, dims_tuple, i + 1,
                     Target(TRUE, UCMul(res_unit.units,
                                        UCPow(parsed :> 1, dims_tuple[i][2]))))

RECURSIVE Synthesize(_, _, _, _)
\* the loop of _get_target_unit over dims_tuple, from pair i on
Synthesize(_udict, dims_tuple, i, res_unit) ==
    IF i > Len(dims_tuple) THEN res_unit
    ELSE LET dim == dims_tuple[i][1]
             exp == dims_tuple[i][2]
             target_str == TargetStr(_udict, dim)
             parsed == ParseUnit(target_str)
         IN  IF parsed = Undefined THEN TargetError(target_str)
             ELSE Synthesize(_udict, dims_tuple, i + 1,
                     Target(TRUE, UCMul(res_unit.units, UCPow(parsed :> 1, exp))))

\* mutant of StoreEntry: an entry that is already there is multiplied by the
\* unit stored, instead of being replaced by it
StoreEntryMultiplying(cache, dims_tuple, res_unit) ==
    IF dims_tuple \in DOMAIN cache
    THEN (dims_tuple :> Target(TRUE, UCMul(cache[dims_tuple].units, res_unit.units)))
         @@ cache
    ELSE (dims_tuple :> res_unit) @@ cache

\* self._target_unit_cache[dims_tuple] = res_unit
StoreEntry(cache, dims_tuple, res_unit) == (dims_tuple :> res_unit) @@ cache

\* mutant of _get_target_unit: any entry of the cache counts as a hit
_get_target_unit_any_hit(self, dims_tuple) ==
    IF DOMAIN self._target_unit_cache # {}
    THEN [res |-> self._target_unit_cache[
                      CHOOSE k \in DOMAIN self._target_unit_cache : TRUE],
          self |-> self]
    ELSE LET res_unit == Synthesize(self._udict, dims_tuple, 1, Target(FALSE, NoUnits))
         IN  IF res_unit.ok
             THEN [res |-> res_unit,
                   self |-> [self EXCEPT !._target_unit_cache =
                                (dims_tuple :> res_unit) @@ @]]
             ELSE [res |-> res_unit, self |-> self]

\* mutant of _get_target_unit: the cache entry is written before the loop
\* has multiplied anything into res_unit
_get_target_unit_caching_early(self, dims_tuple) ==
    IF dims_tuple \in DOMAIN self._target_unit_cache
    THEN [res |-> self._target_unit_cache[dims_tuple], self |-> self]
    ELSE LET res_unit == Synthesize(self._udict, dims_tuple, 1, Target(FALSE, NoUnits))
         IN  [res |-> res_unit,
              self |-> [self EXCEPT !._target_unit_cache =
                           (dims_tuple :> Target(FALSE, NoUnits)) @@ @]]

\* uniUnit._get_target_unit: the target and the cache it leaves
_get_target_unit(self, dims_tuple) ==
    IF dims_tuple \in DOMAIN self._target_unit_cache
    THEN [res |-> self._target_unit_cache[dims_tuple], self |-> self]
    ELSE LET res_unit == Synthesize(self._udict, dims_tuple, 1, Target(FALSE, NoUnits))
         IN  IF res_unit.ok
             THEN [res |-> res_unit,
                   self |-> [self EXCEPT !._target_unit_cache =
                                StoreEntry(@, dims_tuple, res_unit)]]
             ELSE [res |-> res_unit, self |-> self]

\* uniUnit.get_new_unit on a quantity
get_new_unit(self, uin) ==
    LET dims == Dimensionality(uin.units)
        dims_tuple == Sorted(ItemsOf(dims))
    IN  _get_target_unit(self, dims_tuple)

\* mutant of To: the magnitude is rescaled without comparing the dimensions
ToUnchecked(uin, target_units) ==
    Qty(RMul(uin.mag, RDiv(Factor(DOMAIN uin.units, uin.units),
                           Factor(DOMAIN target_units, target_units))),
        target_units)

\* mutant of To: the magnitude is taken to be in base units already
ToAssumingBase(uin, target_units) ==
    IF Dimensionality(uin.units) # Dimensionality(target_units)
    THEN Raise("DimensionalityError", << >>)
    ELSE Qty(RMul(uin.mag, RInv(Factor(DOMAIN target_units, target_units))),
             target_units)

\* Quantity.to(target): the registry's conversion
To(uin, target_units) ==
    IF Dimensionality(uin.units) # Dimensionality(target_units)
    THEN Raise("DimensionalityError", << >>)
    ELSE Qty(RMul(uin.mag, RDiv(Factor(DOMAIN uin.units, uin.units),
                                Factor(DOMAIN target_units, target_units))),
             target_units)

\* mutant of ToMagnitudeOne: one of the target unit is returned
ToMagnitudeOneOfTarget(uin, target_unit) ==
    IF IsError(To(uin, target_unit.units)) THEN To(uin, target_unit.units)
    ELSE Qty(One, target_unit.units)

\* the branch of to_unit for a magnitude of 1 and a target that is a unit:
\* result = uin.to(target_unit), returned as it is when it is a quantity
\* and multiplied by 1 otherwise
ToMagnitudeOne(uin, target_unit) ==
    LET result == To(uin, target_unit.units)
    IN  IF IsError(result) THEN result
        ELSE IF result.type = "Quantity" THEN result
        ELSE Qty(RMul(One, result.mag), result.units)

RECURSIVE to_unit(_, _)
RECURSIVE to_unit_items(_, _, _, _)

RECURSIVE to_unit_items_prepending(_, _, _, _)
\* mutant of to_unit_items: each result is put in front of the earlier ones
to_unit_items_prepending(self, items, i, acc) ==
    IF i > Len(items) THEN [result |-> List(acc), self |-> self]
    ELSE LET r == to_unit(self, items[i])
         IN  IF IsError(r.result) THEN r
             ELSE to_unit_items_prepending(r.self, items, i + 1, << r.result >> \o acc)

\* the list comprehension of to_unit: items i.. converted in order, on the
\* remapper the earlier items left; an error ends it
to_unit_items(self, items, i, acc) ==
    IF i > Len(items) THEN [result |-> List(acc), self |-> self]
    ELSE LET r == to_unit(self, items[i])
         IN  IF IsError(r.result) THEN r
             ELSE to_unit_items(r.self, items, i + 1, Append(acc, r.result))

\* mutant of to_unit: a bare number is converted as a dimensionless quantity
to_unit_converting_numbers(self, uin) ==
    IF uin.type \in {"List", "Tuple"} THEN to_unit_items(self, uin.items, 1, << >>)
    ELSE IF uin.type \in {"Number", "Quantity"}
    THEN LET q == Qty(uin.mag, uin.units)
             g == get_new_unit(self, q)
         IN  IF ~g.res.ok
             THEN [result |-> Raise(Undefined, g.res.detail), self |-> g.self]
             ELSE [result |-> To(q, g.res.units), self |-> g.self]
    ELSE [result |-> uin, self |-> self]

\* uniUnit.to_unit: the value returned (or the error raised) and the remapper after
to_unit(self, uin) ==
    IF uin.type \in {"List", "Tuple"} THEN to_unit_items(self, uin.items, 1, << >>)
    ELSE IF uin.type = "Number" THEN [result |-> uin, self |-> self]
    ELSE IF uin.type = "Quantity"
    THEN LET g == get_new_unit(self, uin)
             target_unit == g.res
         IN  IF ~target_unit.ok
             THEN [result |-> Raise(Undefined, target_unit.detail), self |-> g.self]
             ELSE IF uin.mag = One /\ ~target_unit.isQuantity
             THEN [result |-> ToMagnitudeOne(uin, target_unit), self |-> g.self]
             ELSE [result |-> To(uin, target_unit.units), self |-> g.self]
    ELSE [result |-> uin, self |-> self]

\* uniUnit.get_conversion_factor: the number returned; every failure of
\* the parse or of the conversion is caught and answered with 1.0
get_conversion_factor(self, base_unit_name) ==
    IF base_unit_name \notin DOMAIN self._udict THEN Num(One)
    ELSE LET target == self._udict[base_unit_name]
             base == ParseUnit(base_unit_name)
             parsed == ParseUnit(target)
         IN  IF base = Undefined \/ parsed = Undefined THEN Num(One)
             ELSE LET converted == To(Qty(One, Dim(base)), Dim(parsed))
                  IN  IF IsError(converted) THEN Num(One) ELSE Num(converted.mag)

(***************************************************************************)
(* UnitSystem and the preset registry                                      *)
(***************************************************************************)
Item(key, value) == << key, value >>

\* the register_preset calls made at import, in order
BUILTIN_PRESETS == <<
    [name |-> "SI", description |-> "International System of Units",
     units |-> << Item("kilogram", "kilogram"), Item("meter", "meter"),
                  Item("second", "second"), Item("ampere", "ampere"),
                  Item("kelvin", "kelvin"), Item("mole", "mole"),
                  Item("candela", "candela") >>],
    [name |-> "MKS", description |-> "Meter-Kilogram-Second",
     units |-> << Item("kilogram", "kilogram"), Item("meter", "meter"),
                  Item("second", "second") >>],
    [name |-> "CGS", description |-> "Centimeter-Gram-Second",
     units |-> << Item("kilogram", "gram"), Item("meter", "centimeter"),
                  Item("second", "second") >>],
    [name |-> "mmkgms", description |-> "Millimeter-Kilogram-Millisecond",
     units |-> << Item("kilogram", "kilogram"), Item("meter", "millimeter"),
                  Item("second", "millisecond") >>],
    [name |-> "mmgms", description |-> "Millimeter-Gram-Millisecond",
     units |-> << Item("kilogram", "gram"), Item("meter", "millimeter"),
                  Item("second", "millisecond") >>],
    [name |-> "nm_ug_ps",
     description |-> "Nanometer-Microgram-Picosecond (nano-science)",
     units |-> << Item("kilogram", "microgram"), Item("meter", "nanometer"),
                  Item("second", "picosecond"), Item("ampere", "nanoampere"),
                  Item("kelvin", "kelvin"), Item("mole", "nanomole"),
                  Item("candela", "candela") >>],
    [name |-> "Imperial", description |-> "Imperial units",
     units |-> << Item("kilogram", "pound"), Item("meter", "inch"),
                  Item("second", "second") >>],
    [name |-> "FPS", description |-> "Foot-Pound-Second",
     units |-> << Item("kilogram", "pound"), Item("meter", "foot"),
                  Item("second", "second") >>],
    [name |-> "British", description |-> "British units (pound-inch-minute)",
     units |-> << Item("kilogram", "pound"), Item("meter", "inch"),
                  Item("second", "minute") >> ] >>

\* the mapping objects callers hold and pass to the constructors and to
\* register_preset
CALLER_MAPPINGS == <<
    << Item("kg", "g"), Item("m", "mm"), Item("s", "s") >>,
    << >>,
    << Item("dimensionless", "dozen") >>,
    << Item("kilogram", "meter") >>,
    << Item("[substance]", "mole"), Item("kilogram", "gram") >>,
    << Item("kilogram", "gram"), Item("meter", "millimeter"), Item("second", "second") >>,
    << Item("kg", "blorg"), Item("m", "mm") >>,
    << Item("kg", "m"), Item("m", "kg") >>,
    << Item("pound", "gram"), Item("kilogram", "gram") >>,
    << Item("kg", "g"), Item("gram", "mg") >> >>

BuiltinRefs == 1..Len(BUILTIN_PRESETS)
CallerRefs == (Len(BUILTIN_PRESETS) + 1)..(Len(BUILTIN_PRESETS) + Len(CALLER_MAPPINGS))

\* the variables of the calling program that hold a remapper or a unit system
Slots == {"u1", "u2"}

VARIABLES
    PRESETS,    \* UnitSystem.PRESETS: the entries << name, mapping object >> in insertion order
    heap,       \* the mapping objects: reference -> items in insertion order
    objects,    \* slot -> the uniUnit or UnitSystem instance it holds
    described,  \* history: name -> the description given at its last registration
    kept,       \* a to_unit call the caller has kept: its slot, its input and what
                \* it returned or raised (Idle when none is kept)
    last,       \* the call that has just returned: its arguments and what it
                \* returned or raised (Idle once the caller has gone on)
    threads     \* thread -> its position inside a to_unit call on a shared
                \* remapper and the locals of that call

vars == << PRESETS, heap, objects, described, kept, last, threads >>

Keys(presets) == [i \in 1..Len(presets) |-> presets[i][1]]

Has(presets, name) == \E i \in 1..Len(presets) : presets[i][1] = name

\* cls.PRESETS[name]
Lookup(presets, name) ==
    presets[CHOOSE i \in 1..Len(presets) : presets[i][1] = name][2]

\* mutant of SetItem: a registry of nine entries drops its oldest entry to
\* take a new name
SetItemEvicting(presets, name, units) ==
    IF Has(presets, name)
    THEN [i \in 1..Len(presets) |->
            IF presets[i][1] = name THEN << name, units >> ELSE presets[i]]
    ELSE IF Len(presets) >= 9 THEN Append(Tail(presets), << name, units >>)
    ELSE Append(presets, << name, units >>)

\* cls.PRESETS[name] = units
SetItem(presets, name, units) ==
    IF Has(presets, name)
    THEN [i \in 1..Len(presets) |->
            IF presets[i][1] = name THEN << name, units >> ELSE presets[i]]
    ELSE Append(presets, << name, units >>)

NoObject ==
    [kind |-> "None", name |-> "", units |-> 0, description |-> "",
     _converter |-> uniUnit(<< >>)]

\* UnitSystem.__init__
UnitSystem(name, units, description) ==
    [kind |-> "UnitSystem", name |-> name, units |-> units,
     description |-> description, _converter |-> uniUnit(heap[units])]

\* a bare remapper held by the caller
Remapper(units) ==
    [kind |-> "uniUnit", name |-> "", units |-> 0, description |-> "",
     _converter |-> uniUnit(heap[units])]

\* a call: the slot it acts on (self, or the to_system), the source slot, the
\* preset name (of get_preset, register_preset or the to_system), the
\* from_system name, the mapping object passed (0 for none), the input and
\* the result
Call(op, slot, source, name, from, units, uin, result) ==
    [op |-> op, slot |-> slot, source |-> source, name |-> name, from |-> from,
     units |-> units, uin |-> uin, result |-> result]

\* a list of names, as list_presets returns it
Names(names) ==
    [type |-> "Names", mag |-> Zero, units |-> NoUnits, items |-> << >>,
     err |-> "", detail |-> names]

\* no call has returned that the caller has not yet taken
Idle == Call("", "", "", "", "", 0, None, None)

RECURSIVE RegisterAllButMKS(_)
\* mutant of RegisterAll: the import leaves out the registration of "MKS"
RegisterAllButMKS(i) ==
    IF i = 0 THEN << >>
    ELSE IF BUILTIN_PRESETS[i].name = "MKS" THEN RegisterAllButMKS(i - 1)
    ELSE SetItem(RegisterAllButMKS(i - 1), BUILTIN_PRESETS[i].name, i)

RECURSIVE RegisterAll(_)
\* the registry after the first i register_preset calls of the import
RegisterAll(i) ==
    IF i = 0 THEN << >>
    ELSE SetItem(RegisterAll(i - 1), BUILTIN_PRESETS[i].name, i)

\* the threads that share a remapper
Threads == {"t1", "t2"}

\* the position of a thread inside u.to_unit(uin) and the locals of the
\* call: the sorted signature, the index of the loop of _get_target_unit,
\* its res_unit, whether the lookup hit, and what the call returned
Frame(pc, slot, uin, dims_tuple, i, res_unit, hit, result) ==
    [pc |-> pc, slot |-> slot, uin |-> uin, dims_tuple |-> dims_tuple, i |-> i,
     res_unit |-> res_unit, hit |-> hit, result |-> result]

\* a thread that is in no call
NotRunning == Frame("idle", "", None, << >>, 1, Target(FALSE, NoUnits), FALSE, None)

Init ==
    /\ PRESETS = RegisterAll(Len(BUILTIN_PRESETS))
    /\ heap = [r \in BuiltinRefs \cup CallerRefs |->
                 IF r \in BuiltinRefs THEN BUILTIN_PRESETS[r].units
                 ELSE CALLER_MAPPINGS[r - Len(BUILTIN_PRESETS)]]
    /\ objects = [s \in Slots |-> NoObject]
    /\ described = [n \in {BUILTIN_PRESETS[i].name : i \in BuiltinRefs} |->
                      LET i == CHOOSE j \in BuiltinRefs : BUILTIN_PRESETS[j].name = n
                      IN  BUILTIN_PRESETS[i].description]
    /\ kept = Idle
    /\ last = Idle
    /\ threads = [t \in Threads |-> NotRunning]

(***************************************************************************)
(* The calls of the program.                                               *)
(***************************************************************************)
\* the slot s is bound to a new instance: what was kept of the old one is
\* of no further use
Rebound(s) == IF kept.slot = s THEN Idle ELSE kept

\* u = uniUnit(mapping)
NewUniUnit(s, units) ==
    /\ last = Idle
    /\ objects' = [objects EXCEPT ![s] = Remapper(units)]
    /\ last' = Call("uniUnit", s, "", "", "", units, None, None)
    /\ kept' = Rebound(s)
    /\ UNCHANGED << PRESETS, heap, described, threads >>

\* u = UnitSystem(name, mapping, description)
NewUnitSystem(s, name, units, description) ==
    /\ last = Idle
    /\ objects' = [objects EXCEPT ![s] = UnitSystem(name, units, description)]
    /\ last' = Call("UnitSystem", s, "", name, "", units, None, None)
    /\ kept' = Rebound(s)
    /\ UNCHANGED << PRESETS, heap, described, threads >>

\* mutant of register_preset: a name that is registered keeps its mapping
register_preset_keeping(name, units, description) ==
    /\ last = Idle
    /\ PRESETS' = IF Has(PRESETS, name) THEN PRESETS ELSE SetItem(PRESETS, name, units)
    /\ described' = (name :> description) @@ described
    /\ last' = Call("register_preset", "", "", name, "", units, None, None)
    /\ UNCHANGED << heap, objects, kept, threads >>

\* UnitSystem.register_preset(name, units, description)
register_preset(name, units, description) ==
    /\ last = Idle
    /\ PRESETS' = SetItem(PRESETS, name, units)
    /\ described' = (name :> description) @@ described
    /\ last' = Call("register_preset", "", "", name, "", units, None, None)
    /\ UNCHANGED << heap, objects, kept, threads >>

\* mutant of NotFound: the names available are those registered at import
NotFoundListingBuiltins(name) ==
    Raise("KeyError", << name >> \o Keys(RegisterAll(Len(BUILTIN_PRESETS))))

\* the KeyError of get_preset: the name asked for, then the names available
NotFound(name) ==
    Raise("KeyError",
          << name >> \o (IF Len(PRESETS) > 0 THEN Keys(PRESETS) ELSE << "none" >>))

\* mutant of get_preset: a name that is not registered is registered with
\* the first preset's mapping before the lookup fails
get_preset_registering(s, name) ==
    /\ last = Idle
    /\ IF ~Has(PRESETS, name)
       THEN /\ last' = Call("get_preset", s, "", name, "", 0, None, NotFound(name))
            /\ PRESETS' = SetItem(PRESETS, name, PRESETS[1][2])
            /\ UNCHANGED << objects, kept >>
       ELSE /\ kept' = Rebound(s)
            /\ objects' = [objects EXCEPT
                             ![s] = UnitSystem(name, Lookup(PRESETS, name), "")]
            /\ last' = Call("get_preset", s, "", name, "", 0, None, None)
            /\ UNCHANGED PRESETS
    /\ UNCHANGED << heap, described, threads >>

\* u = UnitSystem.get_preset(name)
get_preset(s, name) ==
    /\ last = Idle
    /\ IF ~Has(PRESETS, name)
       THEN /\ last' = Call("get_preset", s, "", name, "", 0, None, NotFound(name))
            /\ UNCHANGED << objects, kept >>
       ELSE /\ kept' = Rebound(s)
            /\ objects' = [objects EXCEPT
                             ![s] = UnitSystem(name, Lookup(PRESETS, name), "")]
            /\ last' = Call("get_preset", s, "", name, "", 0, None, None)
    /\ UNCHANGED << PRESETS, heap, described, threads >>

\* UnitSystem.list_presets()
list_presets ==
    /\ last = Idle
    /\ last' = Call("list_presets", "", "", "", "", 0, None, Names(Keys(PRESETS)))
    /\ UNCHANGED << PRESETS, heap, objects, described, kept, threads >>

\* u.to_unit(uin), on a remapper or through UnitSystem.to_unit
ToUnit(s, uin) ==
    /\ last = Idle
    /\ objects[s].kind # "None"
    /\ LET r == to_unit(objects[s]._converter, uin)
       IN  /\ objects' = [objects EXCEPT ![s]._converter = r.self]
           /\ last' = Call("to_unit", s, "", "", "", 0, uin, r.result)
    /\ UNCHANGED << PRESETS, heap, described, kept, threads >>

\* a unit without a magnitude, as ureg.dimensionless is
Unit(units) ==
    [type |-> "Unit", mag |-> One, units |-> units, items |-> << >>,
     err |-> "", detail |-> << >>]

\* what get_new_unit hands back for a synthesized target, or raises
Returned(res) ==
    IF ~res.ok THEN Raise(Undefined, res.detail)
    ELSE IF res.isQuantity THEN Qty(One, res.units)
    ELSE Unit(res.units)

\* u.get_new_unit(uin), on a remapper or through UnitSystem.get_new_unit
GetNewUnit(s, uin) ==
    /\ last = Idle
    /\ objects[s].kind # "None"
    /\ \E g \in {get_new_unit(objects[s]._converter, uin)} :
           /\ objects' = [objects EXCEPT ![s]._converter = g.self]
           /\ last' = Call("get_new_unit", s, "", "", "", 0, uin, Returned(g.res))
    /\ UNCHANGED << PRESETS, heap, described, kept, threads >>

\* the targets of CHINESE_UNITS in the order of the table; an alias is
\* known by its place in the table
CHINESE_UNITS ==
    << "meter", "kilometer", "decimeter", "centimeter", "millimeter",
       "micrometer", "nanometer", "picometer", "femtometer", "li", "zhang",
       "chi", "cun", "fen", "centimeter", "kilogram", "gram", "milligram",
       "microgram", "metric_ton", "jin", "liang", "second", "minute",
       "15 * minute", "hour", "day", "week", "month", "year",
       "square_meter", "square_kilometer", "square_centimeter",
       "square_millimeter", "mu", "hectare", "cubic_meter", "liter",
       "milliliter", "newton", "kilonewton", "pascal", "kilopascal",
       "megapascal", "bar", "atmosphere", "joule", "kilojoule", "calorie",
       "kilocalorie", "watt_hour", "kilowatt_hour", "watt", "kilowatt",
       "megawatt", "kelvin", "degC", "degF", "ampere", "milliampere",
       "microampere", "volt", "millivolt", "kilovolt", "ohm", "mole",
       "candela" >>

\* what the registry's define answers for each alias of the table:
\* "defined", or the kind of the exception it raises
Outcomes(outcomes) ==
    [type |-> "Outcomes", mag |-> Zero, units |-> NoUnits, items |-> << >>,
     err |-> "", detail |-> outcomes]

RECURSIVE DefineAllStopping(_, _, _)
\* mutant of DefineAll: the try statement is around the whole loop, so the
\* first DefinitionError ends the registration
DefineAllStopping(outcomes, i, passed) ==
    IF i > Len(CHINESE_UNITS) THEN Names(passed)
    ELSE IF outcomes[i] = "defined"
         THEN DefineAllStopping(outcomes, i + 1, Append(passed, CHINESE_UNITS[i]))
         ELSE IF outcomes[i] = "DefinitionError"
              THEN Names(Append(passed, CHINESE_UNITS[i]))
              ELSE Raise(outcomes[i], Append(passed, CHINESE_UNITS[i]))

RECURSIVE DefineAll(_, _, _)
\* the registration loop from alias i on: the aliases passed to define, in
\* order, when the loop ends, or the exception that leaves the loop and
\* the aliases passed until then
DefineAll(outcomes, i, passed) ==
    IF i > Len(CHINESE_UNITS) THEN Names(passed)
    ELSE IF outcomes[i] = "defined"
         THEN DefineAll(outcomes, i + 1, Append(passed, CHINESE_UNITS[i]))
         ELSE IF outcomes[i] = "DefinitionError"
              THEN DefineAll(outcomes, i + 1, Append(passed, CHINESE_UNITS[i]))
              ELSE Raise(outcomes[i], Append(passed, CHINESE_UNITS[i]))

\* the module is imported in a process whose registry answers the define
\* calls as outcomes says
ImportAliases(outcomes) ==
    /\ last = Idle
    /\ last' = Call("import", "", "", "", "", 0, Outcomes(outcomes),
                    DefineAll(outcomes, 1, << >>))
    /\ UNCHANGED << PRESETS, heap, objects, described, kept, threads >>

\* u.get_conversion_factor(base_unit_name), on a remapper
GetConversionFactor(s, base_unit_name) ==
    /\ last = Idle
    /\ objects[s].kind = "uniUnit"
    /\ last' = Call("get_conversion_factor", s, "", base_unit_name, "", 0, None,
                    get_conversion_factor(objects[s]._converter, base_unit_name))
    /\ UNCHANGED << PRESETS, heap, objects, described, kept, threads >>

\* mutant of Chain: the result of the source system is returned as it is
ChainSourceOnly(objs, from_obj, from_slot, to_obj, to_slot, value) ==
    LET r1 == to_unit(from_obj._converter, value)
    IN  [result |-> r1.result,
         objects |-> IF from_slot = "" THEN objs
                     ELSE [objs EXCEPT ![from_slot]._converter = r1.self]]

\* the second conversion of convert_from and quick_convert: r1 is what the
\* source system returned and the source remapper after it; an error of
\* the source is raised before the target is called
ThenTarget(objs, from_slot, to_obj, to_slot, r1) ==
    LET objs1 == IF from_slot = "" THEN objs
                 ELSE [objs EXCEPT ![from_slot]._converter = r1.self]
        target == IF to_slot = "" THEN to_obj ELSE objs1[to_slot]
    IN  IF IsError(r1.result) THEN [result |-> r1.result, objects |-> objs1]
        ELSE CHOOSE c \in
                 {[result |-> r2.result,
                   objects |-> IF to_slot = "" THEN objs1
                               ELSE [objs1 EXCEPT ![to_slot]._converter = r2.self]] :
                      r2 \in {to_unit(target._converter, r1.result)}} : TRUE

\* the two conversions of convert_from and quick_convert on the objects objs:
\* through the source first, then through the target; a system given by
\* name is a fresh instance that no slot holds
Chain(objs, from_obj, from_slot, to_obj, to_slot, value) ==
    CHOOSE c \in {ThenTarget(objs, from_slot, to_obj, to_slot, r1) :
                      r1 \in {to_unit(from_obj._converter, value)}} : TRUE

\* u.convert_from(uin, source_system)
convert_from(s, uin, source) ==
    /\ last = Idle
    /\ objects[s].kind = "UnitSystem"
    /\ objects[source].kind # "None"
    /\ \E c \in {Chain(objects, objects[source], source, objects[s], s, uin)} :
           /\ objects' = c.objects
           /\ last' = Call("convert_from", s, source, "", "", 0, uin, c.result)
    /\ UNCHANGED << PRESETS, heap, described, kept, threads >>

\* the caller takes the result of the call and goes on
Continue ==
    /\ last # Idle
    /\ last' = Idle
    /\ UNCHANGED << PRESETS, heap, objects, described, kept, threads >>

\* the caller keeps the result of a to_unit call to compare it with later ones
Keep ==
    /\ last.op = "to_unit"
    /\ kept' = last
    /\ last' = Idle
    /\ UNCHANGED << PRESETS, heap, objects, described, threads >>

\* a from_system or to_system argument: a preset name or the unit system of a slot
ByName(name) == [isStr |-> TRUE, v |-> name]
BySlot(s) == [isStr |-> FALSE, v |-> s]

\* quick_convert(value, from_system, to_system)
quick_convert(value, from_system, to_system) ==
    /\ last = Idle
    /\ ~from_system.isStr => objects[from_system.v].kind = "UnitSystem"
    /\ ~to_system.isStr => objects[to_system.v].kind = "UnitSystem"
    /\ LET fname == IF from_system.isStr THEN from_system.v ELSE ""
           tname == IF to_system.isStr THEN to_system.v ELSE ""
           fslot == IF from_system.isStr THEN "" ELSE from_system.v
           tslot == IF to_system.isStr THEN "" ELSE to_system.v
       IN  IF from_system.isStr /\ ~Has(PRESETS, fname)
           THEN /\ last' = Call("quick_convert", tslot, fslot, tname, fname, 0, value,
                                NotFound(fname))
                /\ UNCHANGED objects
           ELSE IF to_system.isStr /\ ~Has(PRESETS, tname)
           THEN /\ last' = Call("quick_convert", tslot, fslot, tname, fname, 0, value,
                                NotFound(tname))
                /\ UNCHANGED objects
           ELSE LET from_obj == IF from_system.isStr
                                THEN UnitSystem(fname, Lookup(PRESETS, fname), "")
                                ELSE objects[fslot]
                    to_obj == IF to_system.isStr
                              THEN UnitSystem(tname, Lookup(PRESETS, tname), "")
                              ELSE objects[tslot]
                IN  \E c \in {Chain(objects, from_obj, fslot, to_obj, tslot, value)} :
                        /\ objects' = c.objects
                        /\ last' = Call("quick_convert", tslot, fslot, tname, fname, 0,
                                        value, c.result)
    /\ UNCHANGED << PRESETS, heap, described, kept, threads >>

\* mutant of Mutate: the remappers of the instances built from the mapping
\* object follow the change
MutateThrough(ref, key, value) ==
    /\ last = Idle
    /\ heap' = [heap EXCEPT ![ref] = SetItem(@, key, value)]
    /\ objects' = [s \in Slots |->
                     IF objects[s].kind = "UnitSystem" /\ objects[s].units = ref
                     THEN [objects[s] EXCEPT
                              !._converter._udict = uniUnit(heap'[ref])._udict]
                     ELSE objects[s]]
    /\ UNCHANGED << PRESETS, described, kept, last, threads >>

\* the caller changes a mapping object it holds: d[key] = value, d being
\* a dict of its own or the units attribute of a unit system
Mutate(ref, key, value) ==
    /\ last = Idle
    /\ heap' = [heap EXCEPT ![ref] = SetItem(@, key, value)]
    /\ UNCHANGED << PRESETS, objects, described, kept, last, threads >>

(***************************************************************************)
(* The HTTP routes                                                         *)
(***************************************************************************)
\* an HTTP response: its status, the detail of an HTTPException, and the
\* values of a body that has any
Response(status, detail, body) ==
    [type |-> "Response", mag |-> Zero, units |-> NoUnits, items |-> body,
     err |-> status, detail |-> detail]

\* str(e): the text of a failure
Text(e) == << e.err >> \o e.detail

\* GET /api/units/presets/{name}
RouteGetPreset(name) ==
    /\ last = Idle
    /\ last' = Call("GET /api/units/presets/{name}", "", "", name, "", 0, None,
                    IF ~Has(PRESETS, name)
                    THEN Response("404", << "Preset", name, "not found" >>, << >>)
                    ELSE Response("200", << name >>, << >>))
    /\ UNCHANGED << PRESETS, heap, objects, described, kept, threads >>

\* format_quantity(q): q.magnitude fails on what is not a quantity
format_quantity(q) ==
    IF q.type = "Quantity" THEN q
    ELSE Raise("AttributeError", << "magnitude" >>)

\* POST /api/quick-convert: the response to what quick_convert returned
\* or raised
QuickConvertResponse(result) ==
    IF IsError(result) THEN Response("400", Text(result), << >>)
    ELSE IF IsError(format_quantity(result))
    THEN Response("400", Text(format_quantity(result)), << >>)
    ELSE Response("200", << >>, << format_quantity(result) >>)

\* POST /api/quick-convert {value, from_system, to_system}
RouteQuickConvert(value, from_system, to_system) ==
    /\ last = Idle
    /\ \E result \in
           {IF ~Has(PRESETS, from_system) THEN NotFound(from_system)
            ELSE IF ~Has(PRESETS, to_system) THEN NotFound(to_system)
            ELSE Chain(objects,
                       UnitSystem(from_system, Lookup(PRESETS, from_system), ""), "",
                       UnitSystem(to_system, Lookup(PRESETS, to_system), ""), "",
                       value).result} :
           last' = Call("POST /api/quick-convert", "", "", to_system, from_system, 0,
                        value, QuickConvertResponse(result))
    /\ UNCHANGED << PRESETS, heap, objects, described, kept, threads >>

(***************************************************************************)
(* to_unit on a quantity, step by step, as a thread runs it on a remapper  *)
(* it shares with another thread; no step takes a lock.                    *)
(***************************************************************************)
\* thread t calls u.to_unit(uin): get_new_unit sorts the signature
Enter(t, s, uin) ==
    /\ last = Idle
    /\ threads[t].pc = "idle"
    /\ objects[s].kind # "None"
    /\ threads' = [threads EXCEPT ![t] =
                      Frame("test", s, uin, Sorted(ItemsOf(Dimensionality(uin.units))), 1,
                            Target(FALSE, NoUnits), FALSE, None)]
    /\ UNCHANGED << PRESETS, heap, objects, described, kept, last >>

\* if dims_tuple in self._target_unit_cache
CacheTest(t) ==
    /\ threads[t].pc = "test"
    /\ LET f == threads[t]
           hit == f.dims_tuple \in DOMAIN objects[f.slot]._converter._target_unit_cache
       IN  threads' = [threads EXCEPT ![t].pc = IF hit THEN "read" ELSE "loop",
                                      ![t].hit = hit]
    /\ UNCHANGED << PRESETS, heap, objects, described, kept, last >>

\* return self._target_unit_cache[dims_tuple]
CacheRead(t) ==
    /\ threads[t].pc = "read"
    /\ LET f == threads[t]
       IN  threads' = [threads EXCEPT
              ![t].pc = "convert",
              ![t].res_unit = objects[f.slot]._converter._target_unit_cache[f.dims_tuple]]
    /\ UNCHANGED << PRESETS, heap, objects, described, kept, last >>

\* one pass of the loop of _get_target_unit: the pair i is multiplied into
\* res_unit, or its unit name is undefined and the call raises
LoopStep(t) ==
    /\ threads[t].pc = "loop"
    /\ threads[t].i <= Len(threads[t].dims_tuple)
    /\ LET f == threads[t]
       IN  \E one \in {Synthesize(objects[f.slot]._converter._udict,
                                  SubSeq(f.dims_tuple, f.i, f.i), 1, f.res_unit)} :
               threads' = [threads EXCEPT ![t] =
                  IF one.ok THEN [f EXCEPT !.i = f.i + 1, !.res_unit = one]
                  ELSE [f EXCEPT !.pc = "done", !.result = Raise(Undefined, one.detail)]]
    /\ UNCHANGED << PRESETS, heap, objects, described, kept, last >>

\* the loop is over: self._target_unit_cache[dims_tuple] = res_unit
CacheStore(t) ==
    /\ threads[t].pc = "loop"
    /\ threads[t].i > Len(threads[t].dims_tuple)
    /\ LET f == threads[t]
       IN  objects' = [objects EXCEPT ![f.slot]._converter._target_unit_cache =
                          StoreEntry(@, f.dims_tuple, f.res_unit)]
    /\ threads' = [threads EXCEPT ![t].pc = "convert"]
    /\ UNCHANGED << PRESETS, heap, described, kept, last >>

\* return uin.to(target_unit)
Convert(t) ==
    /\ threads[t].pc = "convert"
    /\ LET f == threads[t]
       IN  threads' = [threads EXCEPT ![t].pc = "done",
                                      ![t].result = To(f.uin, f.res_unit.units)]
    /\ UNCHANGED << PRESETS, heap, objects, described, kept, last >>

\* the caller of thread t takes what the call returned or raised
Leave(t) ==
    /\ threads[t].pc = "done"
    /\ threads' = [threads EXCEPT ![t] = NotRunning]
    /\ UNCHANGED << PRESETS, heap, objects, described, kept, last >>

\* a remapper is built and handed to the threads, none of which is in a call
Share(s, units) ==
    /\ \A t \in Threads : threads[t].pc = "idle"
    /\ NewUniUnit(s, units)

(***************************************************************************)
(* The inputs of the calls.                                                *)
(***************************************************************************)
MaxMag == 2
MaxLen == 2

Magnitudes == {RInt(i) : i \in {j \in 1..MaxMag : Smooth(j)}}

InputUnits ==
    { Dim("kilogram"), Dim("joule"), Dim("mole"), Dim("ampere"), Dim("dozen") }

Quantities == {Qty(m, u) : m \in Magnitudes, u \in InputUnits}

Numbers == {Num(m) : m \in Magnitudes}

\* the elements lists and tuples are made of
Elements == { Qty(One, Dim("kilogram")), Qty(RInt(2), Dim("joule")), Num(One),
              Qty(One, Dim("mole")) }

RECURSIVE SeqsUpTo(_, _)
SeqsUpTo(S, n) ==
    IF n = 0 THEN {<< >>}
    ELSE LET shorter == SeqsUpTo(S, n - 1)
         IN  shorter \cup {Append(q, x) : q \in {t \in shorter : Len(t) = n - 1}, x \in S}

Nested ==
    { List(<< List(<< Qty(One, Dim("kilogram")) >>), Qty(RInt(2), Dim("joule")) >>),
      List(<< Tuple(<< >>), Tuple(<< Num(One), Qty(One, Dim("kilogram")) >>) >>) }

Inputs ==
    Quantities \cup Numbers \cup Nested
    \cup {List(q) : q \in SeqsUpTo(Elements, MaxLen)}
    \cup {Tuple(q) : q \in SeqsUpTo(Elements, MaxLen)}

\* the inputs of the calls that involve two systems
ChainInputs ==
    { Qty(RInt(100), Dim("kilogram")), Qty(One, Dim("mole")), Num(RInt(12)),
      List(<< Qty(One, Dim("kilogram")), Qty(RInt(2), Dim("kilogram")) >>) }

PresetNames == {BUILTIN_PRESETS[i].name : i \in BuiltinRefs}

\* the names asked of the registry
AskedNames == {"SI", "CGS", "Custom", "Bogus"}

\* the names asked of quick_convert
QuickNames == {"SI", "Custom", "Bogus"}

Ref(mapping) ==
    CHOOSE r \in CallerRefs : CALLER_MAPPINGS[r - Len(BUILTIN_PRESETS)] = mapping

ShortKeys == Ref(<< Item("kg", "g"), Item("m", "mm"), Item("s", "s") >>)
WrongDimension == Ref(<< Item("kilogram", "meter") >>)
SubstanceKey == Ref(<< Item("[substance]", "mole"), Item("kilogram", "gram") >>)

\* the register_preset calls callers make: a new name, and a built-in replaced
Registrations ==
    { << "Custom", ShortKeys, "custom units" >>,
      << "SI", SubstanceKey, "SI with substance" >> }

\* the mapping objects the remappers of Spec are built from
RemapperRefs == {ShortKeys, WrongDimension}

SystemArgs == {ByName(n) : n \in QuickNames} \cup {BySlot("u2")}

(***************************************************************************)
(* Spec: the registry, the instances callers hold and the conversions      *)
(* between two systems.                                                    *)
(***************************************************************************)
Next ==
    \/ \E r \in RemapperRefs : NewUniUnit("u1", r)
    \/ NewUnitSystem("u2", "mine", SubstanceKey, "my units")
    \/ \E reg \in Registrations : register_preset(reg[1], reg[2], reg[3])
    \/ \E s \in Slots, n \in AskedNames : get_preset(s, n)
    \/ list_presets
    \/ \E s \in Slots, uin \in ChainInputs : ToUnit(s, uin)
    \/ \E s \in Slots, source \in Slots, uin \in ChainInputs : convert_from(s, uin, source)
    \/ \E f \in SystemArgs, t \in SystemArgs, value \in ChainInputs :
           quick_convert(value, f, t)
    \/ Continue

Spec == Init /\ [][Next]_vars

(***************************************************************************)
(* SpecConvert: one remapper, built from any mapping or preset, converting *)
(* every input.                                                            *)
(***************************************************************************)
NextConvert ==
    \/ \E r \in CallerRefs : NewUniUnit("u1", r)
    \/ \E n \in PresetNames : get_preset("u1", n)
    \/ \E uin \in Inputs : ToUnit("u1", uin)
    \/ Continue

SpecConvert == Init /\ [][NextConvert]_vars

(***************************************************************************)
(* SpecBase: the built-in SI system and remappers that leave dimensions    *)
(* unspecified, converting one unit of every base dimension.               *)
(***************************************************************************)
BaseUnits ==
    {"kilogram", "meter", "second", "ampere", "kelvin", "mole", "candela"}

BaseQuantities == {Qty(One, Dim(u)) : u \in BaseUnits}

NextBase ==
    \/ \E r \in {Ref(<< >>), ShortKeys} : NewUniUnit("u1", r)
    \/ get_preset("u1", "SI")
    \/ \E uin \in BaseQuantities : ToUnit("u1", uin)
    \/ Continue

SpecBase == Init /\ [][NextBase]_vars

(***************************************************************************)
(* SpecRepeat: one remapper called again and again, its results kept and   *)
(* compared; the mappings include names the registry cannot parse and      *)
(* units of another dimension.                                             *)
(***************************************************************************)
LongNames ==
    Ref(<< Item("kilogram", "gram"), Item("meter", "millimeter"), Item("second", "second") >>)
Unparsable == Ref(<< Item("kg", "blorg"), Item("m", "mm") >>)
Swapped == Ref(<< Item("kg", "m"), Item("m", "kg") >>)

RepeatRefs == {ShortKeys, LongNames, Unparsable, Swapped, WrongDimension}

KilogramMeter == "kilogram" :> 1 @@ "meter" :> 1

RepeatQuantities ==
    { Qty(One, Dim("kilogram")), Qty(RInt(2), Dim("meter")), Qty(One, KilogramMeter),
      Qty(RInt(2), Dim("second")), Qty(One, Dim("mole")), Qty(RInt(2), Dim("dozen")) }

RepeatInputs ==
    RepeatQuantities
    \cup { Num(RInt(2)), List(<< Qty(RInt(2), Dim("meter")), Qty(One, KilogramMeter) >>) }

NextRepeat ==
    \/ \E r \in RepeatRefs : NewUniUnit("u1", r)
    \/ \E n \in {"SI", "Imperial"} : get_preset("u1", n)
    \/ \E uin \in RepeatInputs : ToUnit("u1", uin)
    \/ \E uin \in RepeatQuantities : GetNewUnit("u1", uin)
    \/ Keep
    \/ Continue

SpecRepeat == Init /\ [][NextRepeat]_vars

(***************************************************************************)
(* SpecThreads: two threads converting on one remapper at the same time.   *)
(***************************************************************************)
ThreadRefs == {ShortKeys, Unparsable, Swapped}

ThreadQuantities ==
    { Qty(One, Dim("kilogram")), Qty(RInt(2), Dim("meter")), Qty(One, KilogramMeter),
      Qty(RInt(2), Dim("dozen")) }

NextThreads ==
    \/ \E r \in ThreadRefs : Share("u1", r)
    \/ Continue
    \/ \E t \in Threads, uin \in ThreadQuantities : Enter(t, "u1", uin)
    \/ \E t \in Threads : CacheTest(t)
    \/ \E t \in Threads : CacheRead(t)
    \/ \E t \in Threads : LoopStep(t)
    \/ \E t \in Threads : CacheStore(t)
    \/ \E t \in Threads : Convert(t)
    \/ \E t \in Threads : Leave(t)

SpecThreads == Init /\ [][NextThreads]_vars

(***************************************************************************)
(* SpecFactor: remappers asked for the conversion factor of unit names.    *)
(***************************************************************************)
Pounds == Ref(<< Item("pound", "gram"), Item("kilogram", "gram") >>)

FactorRefs == {ShortKeys, LongNames, Pounds, WrongDimension, Unparsable, SubstanceKey}

\* the names asked of get_conversion_factor
BaseNames ==
    {"kilogram", "meter", "second", "kg", "pound", "mole", "[mass]", "[substance]"}

NextFactor ==
    \/ \E r \in FactorRefs : NewUniUnit("u1", r)
    \/ \E b \in BaseNames : GetConversionFactor("u1", b)
    \/ \E uin \in RepeatQuantities : ToUnit("u1", uin)
    \/ Continue

SpecFactor == Init /\ [][NextFactor]_vars

(***************************************************************************)
(* SpecImport: the registration of the Chinese aliases at import, with     *)
(* a registry that rejects some of the definitions.                        *)
(***************************************************************************)
MaxFailures == 2

\* the kinds of exception a define call raises
FailureKinds == {"DefinitionError", "Exception"}

\* the places of the table whose definition the registry may reject: the
\* first two, the last two, and aliases of names such as "li", "zhang",
\* "centimeter" (a second time), "15 * minute", "degC" and "degF"
FailingPlaces == {1, 2, 10, 11, 15, 25, 57, 58, 66, 67}

RECURSIVE FailingUpTo(_)
\* the sets of at most n of these places
FailingUpTo(n) ==
    IF n = 0 THEN {{}}
    ELSE LET fewer == FailingUpTo(n - 1)
         IN  fewer \cup {S \cup {i} : S \in fewer, i \in FailingPlaces}

\* the answers of a registry that rejects at most MaxFailures definitions
Registries ==
    UNION {{[i \in 1..Len(CHINESE_UNITS) |-> IF i \in S THEN kind[i] ELSE "defined"] :
                kind \in [S -> FailureKinds]} : S \in FailingUpTo(MaxFailures)}

NextImport ==
    \/ \E outcomes \in Registries : ImportAliases(outcomes)
    \/ Continue

SpecImport == Init /\ [][NextImport]_vars

(***************************************************************************)
(* SpecRoutes: requests to the HTTP routes, with presets registered        *)
(* in between.                                                             *)
(***************************************************************************)
\* the values of a quick-convert request: a number, or a string the
\* registry parses to a quantity
RequestValues ==
    { Num(RInt(12)), Qty(RInt(100), Dim("kilogram")), Qty(One, Dim("mole")) }

NextRoutes ==
    \/ \E reg \in Registrations : register_preset(reg[1], reg[2], reg[3])
    \/ \E n \in AskedNames : RouteGetPreset(n)
    \/ \E value \in RequestValues, f \in QuickNames, t \in QuickNames :
           RouteQuickConvert(value, f, t)
    \/ Continue

SpecRoutes == Init /\ [][NextRoutes]_vars

(***************************************************************************)
(* SpecAlias: callers change the mapping objects they passed to a          *)
(* constructor or to register_preset, or found in a unit system, while     *)
(* instances built from them are in use.                                   *)
(***************************************************************************)
\* the items callers set in a mapping object
Mutations == { << "kilogram", "gram" >>, << "m", "inch" >> }

AliasQuantities == { Qty(One, Dim("kilogram")), Qty(RInt(2), Dim("meter")) }

NextAlias ==
    \/ NewUnitSystem("u1", "mine", ShortKeys, "my units")
    \/ NewUniUnit("u2", ShortKeys)
    \/ \E n \in {"SI", "Custom"} : get_preset("u1", n)
    \/ \E reg \in Registrations : register_preset(reg[1], reg[2], reg[3])
    \/ \E m \in Mutations :
           objects["u1"].kind = "UnitSystem" /\ Mutate(objects["u1"].units, m[1], m[2])
    \/ \E m \in Mutations : Mutate(ShortKeys, m[1], m[2])
    \/ \E s \in Slots, uin \in AliasQuantities : ToUnit(s, uin)
    \/ \E uin \in AliasQuantities : GetNewUnit("u2", uin)
    \/ \E b \in {"kilogram", "m"} : GetConversionFactor("u2", b)
    \/ Continue

SpecAlias == Init /\ [][NextAlias]_vars

(***************************************************************************)
(* Properties                                                              *)
(***************************************************************************)
\* the value of a quantity in SI base units
InBase(q) == RMul(q.mag, Factor(DOMAIN q.units, q.units))

\* the name is a unit of the registry that has exactly the dimension dim
ValidTarget(name, dim) ==
    /\ ParseUnit(name) # Undefined
    /\ UNITS[ParseUnit(name)].dims = Dim(dim)

\* the product, over the dimensions of a signature, of the unit the
\* specification names for the dimension raised to its exponent
NamedUnit(_udict, dims) ==
    LET unitOf(t) == ParseUnit(_udict[t])
    IN  [u \in {unitOf(t) : t \in DOMAIN dims} |->
            dims[CHOOSE t \in DOMAIN dims : unitOf(t) = u]]

\* the remapper a slot holds
Converter(s) == objects[s]._converter

\* C1: to_unit on a quantity whose dimensions the specification all names,
\* each with a unit of that dimension, returns a quantity in the product of
\* the named units raised to the signature's exponents, with the same value
\* in base units; a dimensionless quantity gets the dimensionless unit.
C1_ToUnitReexpresses ==
    (last.op = "to_unit" /\ last.uin.type = "Quantity") =>
        LET _udict == Converter(last.slot)._udict
            dims == Dimensionality(last.uin.units)
        IN  (\A t \in DOMAIN dims : t \in DOMAIN _udict /\ ValidTarget(_udict[t], t)) =>
                /\ last.result.type = "Quantity"
                /\ last.result.units = NamedUnit(_udict, dims)
                /\ InBase(last.result) = InBase(last.uin)
                /\ (dims = NoUnits => last.result.units = NoUnits)

\* C1 witness: the CGS preset has converted 1 joule to 10^7 g cm^2 / s^2
C1_Witness ==
    /\ last.op = "to_unit"
    /\ objects[last.slot].name = "CGS"
    /\ last.uin = Qty(One, Dim("joule"))
    /\ last.result = Qty(Ten(7), "gram" :> 1 @@ "centimeter" :> 2 @@ "second" :> -2)

\* what a remapper with the specification _udict returns for uin, whatever its cache
Direct(_udict, uin) ==
    to_unit([_udict |-> _udict, _target_unit_cache |-> NoUnits], uin).result

\* the last call converted through two systems, both of them found
Chained ==
    \/ last.op = "convert_from"
    \/ /\ last.op = "quick_convert"
       /\ last.from # "" => Has(PRESETS, last.from)
       /\ last.name # "" => Has(PRESETS, last.name)

\* the specifications of the source and of the target system of the last call
SourceUdict ==
    IF last.source # "" THEN Converter(last.source)._udict
    ELSE uniUnit(heap[Lookup(PRESETS, last.from)])._udict

TargetUdict ==
    IF last.slot # "" THEN Converter(last.slot)._udict
    ELSE uniUnit(heap[Lookup(PRESETS, last.name)])._udict

\* C2 as claimed: convert_from and quick_convert return, for every quantity
\* and every pair of systems, what the target system's to_unit returns for the
\* quantity.
C2_SameAsDirect ==
    (Chained /\ last.uin.type = "Quantity") =>
        last.result = Direct(TargetUdict, last.uin)

\* C2 amended: when the source system converts the input, convert_from and
\* quick_convert return what the target system's to_unit returns for the
\* input; when the source system raises, they raise that error.
C2_SameAsDirectWhenSourceConverts ==
    Chained =>
        LET viaSource == Direct(SourceUdict, last.uin)
        IN  IF IsError(viaSource) THEN last.result = viaSource
            ELSE last.result = Direct(TargetUdict, last.uin)

\* C2 witness: 100 kg went through a remapper to grams and came out of the
\* built-in SI system as 100 kg
C2_Witness ==
    /\ last.op = "convert_from"
    /\ objects[last.source].kind = "uniUnit"
    /\ SourceUdict["[mass]"] = "g"
    /\ TargetUdict["[mass]"] = "kilogram"
    /\ last.uin = Qty(RInt(100), Dim("kilogram"))
    /\ last.result = Qty(RInt(100), Dim("kilogram"))

\* the canonical dimension identifiers of the program
Canonical == DOMAIN DIMENSION_TO_BASE_UNIT

\* the keys of the mapping the instance of the last constructor call was built from
CallerKeys ==
    LET ref == IF last.op = "get_preset" THEN objects[last.slot].units ELSE last.units
    IN  {heap[ref][i][1] : i \in 1..Len(heap[ref])}

Constructed ==
    \/ last.op \in {"uniUnit", "UnitSystem"}
    \/ last.op = "get_preset" /\ ~IsError(last.result)

\* C3 as claimed: every key of a stored specification is a canonical
\* dimension identifier.
C3_KeysCanonical ==
    \A s \in Slots :
        objects[s].kind # "None" => DOMAIN Converter(s)._udict \subseteq Canonical

\* C3 amended: a key of the lookup table is stored as its canonical dimension
\* identifier and any other key is stored as given, so the stored keys are
\* canonical when every caller key is in the table or canonical already.
C3_KnownKeysCanonical ==
    Constructed =>
        LET stored == DOMAIN Converter(last.slot)._udict
            known == DOMAIN SHORT_TO_DIMENSION
        IN  /\ \A k \in CallerKeys :
                  IF k \in known THEN SHORT_TO_DIMENSION[k] \in stored ELSE k \in stored
            /\ \A d \in stored :
                  \E k \in CallerKeys :
                      d = IF k \in known THEN SHORT_TO_DIMENSION[k] ELSE k
            /\ CallerKeys \subseteq known \cup Canonical => stored \subseteq Canonical

\* C3 witness: a remapper built from {'[substance]': 'mole', 'kilogram': 'gram'}
C3_Witness ==
    /\ last.op = "uniUnit"
    /\ CallerKeys = {"[substance]", "kilogram"}
    /\ DOMAIN Converter(last.slot)._udict = {"[substance]", "[mass]"}

\* C4: get_preset(name) returns a UnitSystem with that name, the registered
\* specification and the description given when the name was registered.
C4_PresetKeepsDescription ==
    (last.op = "get_preset" /\ ~IsError(last.result)) =>
        /\ objects[last.slot].kind = "UnitSystem"
        /\ objects[last.slot].name = last.name
        /\ heap[objects[last.slot].units] = heap[Lookup(PRESETS, last.name)]
        /\ objects[last.slot].description = described[last.name]

\* the value a mapping object holds under a key
ValueOf(ref, key) ==
    heap[ref][CHOOSE i \in 1..Len(heap[ref]) : heap[ref][i][1] = key][2]

\* C5: converting one unit of any of the seven base dimensions with the
\* built-in SI preset succeeds and yields the unit the preset names for it.
C5_SIPresetConvertsBaseDimensions ==
    (last.op = "to_unit" /\ objects[last.slot].name = "SI"
        /\ last.uin \in BaseQuantities) =>
        LET u == CHOOSE x \in DOMAIN last.uin.units : TRUE
            named == ValueOf(objects[last.slot].units, u)
        IN  /\ ~IsError(last.result)
            /\ last.result.units = Dim(ParseUnit(named))

\* the SI base unit of a dimension of the registry
SIBaseUnit(tag) ==
    CHOOSE u \in BaseUnits : UNITS[u].dims = Dim(tag)

\* C6: a quantity of a base dimension the stored specification does not
\* name is converted to the SI base unit of that dimension.
C6_UnspecifiedDefaultsToSIBase ==
    (last.op = "to_unit" /\ last.uin \in BaseQuantities) =>
        LET dims == Dimensionality(last.uin.units)
            tag == CHOOSE t \in DOMAIN dims : TRUE
        IN  tag \notin DOMAIN Converter(last.slot)._udict =>
                last.result = To(last.uin, Dim(SIBaseUnit(tag)))

\* C7: a call other than register_preset leaves the registry as it is: the
\* registered names, their order and the specification under every name.
C7_RegistryFrame ==
    [][last'.op # "register_preset" =>
          /\ PRESETS' = PRESETS
          /\ \A i \in 1..Len(PRESETS) : heap'[PRESETS[i][2]] = heap[PRESETS[i][2]]]_vars

\* C7 witness: after "Custom" was registered, a get_preset that failed has
\* left the ten registered names and the mapping of "Custom" in place
C7_Witness ==
    /\ last.op = "get_preset"
    /\ IsError(last.result)
    /\ Keys(PRESETS) = Keys(RegisterAll(Len(BUILTIN_PRESETS))) \o << "Custom" >>
    /\ heap[Lookup(PRESETS, "Custom")] = CALLER_MAPPINGS[1]

\* C8: get_preset of a name that is not registered raises KeyError, with the
\* name and exactly the names registered at the call, in order (the nine
\* built-ins when nothing else was registered), and assigns no UnitSystem;
\* get_preset of a registered name raises nothing.
C8_NotFoundListsNames ==
    [][last'.op = "get_preset" =>
          IF Has(PRESETS, last'.name)
          THEN ~IsError(last'.result)
          ELSE /\ last'.result.type = "Error"
               /\ last'.result.err = "KeyError"
               /\ last'.result.detail = << last'.name >> \o Keys(PRESETS)
               /\ ((\A i \in 1..Len(PRESETS) : PRESETS[i][2] \in BuiltinRefs) =>
                      Tail(last'.result.detail) =
                          << "SI", "MKS", "CGS", "mmkgms", "mmgms", "nm_ug_ps",
                             "Imperial", "FPS", "British" >>)
               /\ objects' = objects]_vars

\* C8 witness: get_preset("Bogus") has failed listing the nine built-ins and "Custom"
C8_Witness ==
    /\ last.op = "get_preset"
    /\ last.name = "Bogus"
    /\ last.result.err = "KeyError"
    /\ last.result.detail =
           << "Bogus", "SI", "MKS", "CGS", "mmkgms", "mmgms", "nm_ug_ps",
              "Imperial", "FPS", "British", "Custom" >>
    /\ \A s \in Slots : objects[s].name # "Bogus"

\* C9: to_unit on a list or tuple returns the list of the results of to_unit
\* on its elements, one per element and in their order, nested sequences
\* staying nested; when an element raises, the first such error is raised.
C9_ListElementwise ==
    (last.op = "to_unit" /\ last.uin.type \in {"List", "Tuple"}) =>
        LET items == last.uin.items
            each(i) == Direct(Converter(last.slot)._udict, items[i])
            failing == {i \in 1..Len(items) : IsError(each(i))}
        IN  IF failing = {}
            THEN /\ last.result.type = "List"
                 /\ Len(last.result.items) = Len(items)
                 /\ \A i \in 1..Len(items) : last.result.items[i] = each(i)
            ELSE last.result = each(CHOOSE i \in failing : \A j \in failing : i <= j)

\* C9 witness: a list of 1 kg and 2 J has become the list of two different
\* quantities in the same order
C9_Witness ==
    /\ last.op = "to_unit"
    /\ last.uin = List(<< Qty(One, Dim("kilogram")), Qty(RInt(2), Dim("joule")) >>)
    /\ last.result.type = "List"
    /\ Len(last.result.items) = 2
    /\ last.result.items[1].units = Dim("gram")
    /\ DOMAIN last.result.items[2].units = {"gram", "centimeter", "second"}

\* C10: to_unit on a bare number returns the number and leaves the remapper,
\* its cache included, as it was.
C10_NumberUnchanged ==
    [][(last'.op = "to_unit" /\ last'.uin.type = "Number") =>
          /\ last'.result = last'.uin
          /\ objects' = objects]_vars

\* C10 witness: a remapper whose only key is 'dimensionless' has returned the number 2
C10_Witness ==
    /\ last.op = "to_unit"
    /\ last.uin = Num(RInt(2))
    /\ last.result = Num(RInt(2))
    /\ DOMAIN Converter(last.slot)._udict = {"dimensionless"}
    /\ Converter(last.slot)._target_unit_cache = NoUnits

\* C11: a to_unit call returns (or raises) exactly what an earlier to_unit
\* call with the same input on the same remapper returned, whatever was
\* converted in between: a cache hit gives what the cache miss gave.
C11_RepeatedCallsAgree ==
    (last.op = "to_unit" /\ kept.op = "to_unit"
        /\ kept.slot = last.slot /\ kept.uin = last.uin) =>
        last.result = kept.result

\* C11 witness: 1 kg m was converted, the result kept, other signatures
\* converted, and 1 kg m converted again to the same quantity
C11_Witness ==
    /\ last.op = "to_unit"
    /\ kept.op = "to_unit"
    /\ kept.slot = last.slot
    /\ kept.uin = Qty(One, KilogramMeter)
    /\ last.uin = kept.uin
    /\ last.result.type = "Quantity"
    /\ last.result = kept.result
    /\ Cardinality(DOMAIN Converter(last.slot)._target_unit_cache) >= 3

\* every unit the stored specification names is a unit of the dimension it
\* is stored under
ValidSpec(_udict) == \A t \in DOMAIN _udict : ValidTarget(_udict[t], t)

\* S.to_unit(v) on the remapper of slot s as it is now, v being what an
\* earlier call returned; an error raised by that call is raised again
Again(s, v) == IF IsError(v) THEN v ELSE to_unit(Converter(s), v).result

\* C12: with a specification whose units have the dimensions they are
\* mapped from, applying the remapper to what to_unit returned for a
\* quantity gives that same magnitude and unit again.
C12_ReapplyingChangesNothing ==
    (last.op = "to_unit" /\ last.uin.type = "Quantity"
        /\ ValidSpec(Converter(last.slot)._udict)) =>
        Again(last.slot, last.result) = last.result

\* C12 witness: Imperial has converted 1 kg m to pound inch, not the
\* input's unit, and converting that result again returns it unchanged
C12_Witness ==
    /\ last.op = "to_unit"
    /\ objects[last.slot].name = "Imperial"
    /\ last.uin = Qty(One, KilogramMeter)
    /\ last.result.units = "pound" :> 1 @@ "inch" :> 1
    /\ last.result.mag # last.uin.mag
    /\ Again(last.slot, last.result) = last.result

\* C13: with a specification whose units have the dimensions they are
\* mapped from, to_unit on a quantity returns a quantity of the same
\* dimension signature, and converting it back to the input's unit gives
\* the input's magnitude.
C13_RoundTrip ==
    (last.op = "to_unit" /\ last.uin.type = "Quantity"
        /\ ValidSpec(Converter(last.slot)._udict)) =>
        /\ last.result.type = "Quantity"
        /\ Dimensionality(last.result.units) = Dimensionality(last.uin.units)
        /\ To(last.result, last.uin.units) = last.uin

\* the target a remapper without a cache synthesizes for a quantity
UncachedTarget(_udict, uin) ==
    Synthesize(_udict, SortedItems(Dimensionality(uin.units)), 1, Target(FALSE, NoUnits))

RECURSIVE Uncached(_, _)
\* what a remapper without a cache returns or raises for uin
Uncached(_udict, uin) ==
    IF uin.type \in {"List", "Tuple"}
    THEN LET each == [i \in 1..Len(uin.items) |-> Uncached(_udict, uin.items[i])]
             failing == {i \in 1..Len(uin.items) : IsError(each[i])}
         IN  IF failing = {} THEN List(each)
             ELSE each[CHOOSE i \in failing : \A j \in failing : i <= j]
    ELSE IF uin.type = "Quantity"
    THEN LET target == UncachedTarget(_udict, uin)
         IN  IF target.ok THEN To(uin, target.units)
             ELSE Raise(Undefined, target.detail)
    ELSE uin

\* C14: whatever the cache holds after the calls made so far, to_unit and
\* get_new_unit return (or raise) exactly what a remapper with the same
\* specification and no cache returns.
C14_CacheIsMemoization ==
    LET _udict == Converter(last.slot)._udict
    IN  /\ last.op = "to_unit" => last.result = Uncached(_udict, last.uin)
        /\ last.op = "get_new_unit" =>
               last.result = Returned(UncachedTarget(_udict, last.uin))

\* C14 witness: the list of 2 m and 1 kg m is converted a second time, from
\* the cache, to the list a remapper without a cache returns
C14_Witness ==
    /\ last.op = "to_unit"
    /\ kept.op = "to_unit"
    /\ kept.slot = last.slot
    /\ last.uin = List(<< Qty(RInt(2), Dim("meter")), Qty(One, KilogramMeter) >>)
    /\ kept.uin = last.uin
    /\ last.result.type = "List"
    /\ last.result = Uncached(Converter(last.slot)._udict, last.uin)
    /\ SortedItems(Dimensionality(KilogramMeter))
           \in DOMAIN Converter(last.slot)._target_unit_cache

\* the dimensions of a quantity for which the remapper's target name is one
\* the registry cannot parse
Unparsed(_udict, uin) ==
    {t \in DOMAIN Dimensionality(uin.units) : ParseUnit(TargetStr(_udict, t)) = Undefined}

\* C15: constructing a remapper raises nothing whatever names the mapping
\* holds; to_unit on a quantity raises the registry's UndefinedUnitError,
\* naming the unparsable target, exactly when the quantity's signature has
\* a dimension whose target name the registry cannot parse.
C15_UndefinedUnitOnlyWhenNeeded ==
    /\ last.op = "uniUnit" =>
           /\ last.result = None
           /\ objects[last.slot].kind = "uniUnit"
    /\ (last.op = "to_unit" /\ last.uin.type = "Quantity") =>
           LET bad == Unparsed(Converter(last.slot)._udict, last.uin)
           IN  IF bad = {} THEN last.result.err # Undefined
               ELSE /\ last.result.type = "Error"
                    /\ last.result.err = Undefined
                    /\ \E t \in bad : last.result.detail =
                           << TargetStr(Converter(last.slot)._udict, t) >>

\* C15 witness: the remapper built from {'kg': 'blorg', 'm': 'mm'} raised
\* UndefinedUnitError('blorg') for 1 kg and then converted 2 m to 2000 mm
C15_Witness ==
    /\ kept.op = "to_unit"
    /\ kept.uin = Qty(One, Dim("kilogram"))
    /\ kept.result = Raise(Undefined, << "blorg" >>)
    /\ last.op = "to_unit"
    /\ last.slot = kept.slot
    /\ last.uin = Qty(RInt(2), Dim("meter"))
    /\ last.result = Qty(RMul(RInt(2), Ten(3)), Dim("millimeter"))

\* the dimensions of a quantity that the stored specification maps to a
\* unit of another dimension
Misdirected(_udict, uin) ==
    {t \in DOMAIN Dimensionality(uin.units) :
        /\ t \in DOMAIN _udict
        /\ ParseUnit(_udict[t]) # Undefined
        /\ UNITS[ParseUnit(_udict[t])].dims # Dim(t)}

\* C16: to_unit on a quantity with a dimension that the specification maps
\* to a unit of another dimension raises DimensionalityError, and a
\* quantity that to_unit returns has the input's dimension signature.
C16_WrongDimensionFails ==
    (last.op = "to_unit" /\ last.uin.type = "Quantity") =>
        /\ Misdirected(Converter(last.slot)._udict, last.uin) # {} =>
               last.result.err = "DimensionalityError"
        /\ last.result.type = "Quantity" =>
               Dimensionality(last.result.units) = Dimensionality(last.uin.units)

\* C16 as the code has it: when every target name of the quantity's
\* dimensions parses, to_unit raises DimensionalityError exactly when the
\* product of the targets has another dimension signature than the input,
\* which is always so for a quantity of a single dimension mapped to a unit
\* of another dimension; a quantity that to_unit returns has the input's
\* dimension signature.
C16_WrongSignatureFails ==
    (last.op = "to_unit" /\ last.uin.type = "Quantity") =>
        LET _udict == Converter(last.slot)._udict
            dims == Dimensionality(last.uin.units)
            target == UncachedTarget(_udict, last.uin)
        IN  /\ Unparsed(_udict, last.uin) = {} =>
                   IF Dimensionality(target.units) # dims
                   THEN last.result.err = "DimensionalityError"
                   ELSE last.result.type = "Quantity"
            /\ (Cardinality(DOMAIN dims) = 1 /\ Misdirected(_udict, last.uin) # {}) =>
                   last.result.err = "DimensionalityError"
            /\ last.result.type = "Quantity" =>
                   Dimensionality(last.result.units) = dims

\* C16 witness: the remapper built from {'kg': 'm', 'm': 'kg'} returned
\* 1 m kg for 1 kg m and then raised DimensionalityError for 1 kg
C16_Witness ==
    /\ kept.op = "to_unit"
    /\ kept.uin = Qty(One, KilogramMeter)
    /\ kept.result = Qty(One, KilogramMeter)
    /\ Misdirected(Converter(kept.slot)._udict, kept.uin) # {}
    /\ last.op = "to_unit"
    /\ last.slot = kept.slot
    /\ last.uin = Qty(One, Dim("kilogram"))
    /\ last.result.err = "DimensionalityError"

\* the number of entries of the registry under a name
Entries(presets, name) == Cardinality({i \in 1..Len(presets) : presets[i][1] = name})

\* C17: register_preset raises nothing and leaves the name registered
\* exactly once, with the mapping just given, a name registered before
\* keeping its place; list_presets lists each name once; get_preset of a
\* registered name wraps the mapping registered last under it.
C17_ReRegisteringReplaces ==
    [][/\ last'.op = "register_preset" =>
            /\ last'.result = None
            /\ Entries(PRESETS', last'.name) = 1
            /\ Lookup(PRESETS', last'.name) = last'.units
            /\ Has(PRESETS, last'.name) => Keys(PRESETS') = Keys(PRESETS)
       /\ last'.op = "list_presets" =>
            /\ last'.result.detail = Keys(PRESETS)
            /\ \A n \in {PRESETS[i][1] : i \in 1..Len(PRESETS)} :
                   Entries(PRESETS, n) = 1
       /\ (last'.op = "get_preset" /\ Has(PRESETS, last'.name)) =>
            /\ last'.result = None
            /\ objects'[last'.slot].units = Lookup(PRESETS, last'.name)
            /\ \A reg \in Registrations :
                   (reg[1] = last'.name /\ described[reg[1]] = reg[3]) =>
                       /\ objects'[last'.slot].units = reg[2]
                       /\ objects'[last'.slot]._converter = uniUnit(heap[reg[2]])]_vars

\* C17 witness: after "SI" was registered again, with the mapping that has
\* the '[substance]' key, get_preset("SI") wraps that mapping and the
\* registry still has "SI" first
C17_Witness ==
    /\ last.op = "get_preset"
    /\ last.name = "SI"
    /\ described["SI"] = "SI with substance"
    /\ objects[last.slot].units = SubstanceKey
    /\ "[substance]" \in DOMAIN Converter(last.slot)._udict
    /\ PRESETS[1] = << "SI", SubstanceKey >>
    /\ Entries(PRESETS, "SI") = 1

\* the names that were registered at some time: at import or by a caller
EverRegistered == DOMAIN described

\* C18: every name that was ever registered, the nine built-ins among them,
\* is in the registry, is listed by list_presets and is found by get_preset.
C18_NeverRemoved ==
    /\ {BUILTIN_PRESETS[i].name : i \in BuiltinRefs} \subseteq EverRegistered
    /\ \A n \in EverRegistered : Has(PRESETS, n)
    /\ last.op = "list_presets" =>
           \A n \in EverRegistered :
               \E i \in 1..Len(last.result.detail) : last.result.detail[i] = n
    /\ (last.op = "get_preset" /\ last.name \in EverRegistered) =>
           /\ last.result = None
           /\ objects[last.slot].kind = "UnitSystem"
           /\ objects[last.slot].name = last.name

\* C18 witness: after "Custom" was registered and "SI" registered again,
\* list_presets returns the nine built-in names and "Custom"
C18_Witness ==
    /\ last.op = "list_presets"
    /\ described["SI"] = "SI with substance"
    /\ last.result.detail =
           << "SI", "MKS", "CGS", "mmkgms", "mmgms", "nm_ug_ps",
              "Imperial", "FPS", "British", "Custom" >>

\* the specification of a preset with the target units of mass, length and time
MLT(mass, length, time) ==
    "[mass]" :> mass @@ "[length]" :> length @@ "[time]" :> time

\* the four further target units of the presets SI and nm_ug_ps
Extra(current, temperature, amount, luminosity) ==
    "[current]" :> current @@ "[temperature]" :> temperature
        @@ "[amount]" :> amount @@ "[luminosity]" :> luminosity

\* the table of the built-in presets, in the order of their registration
PresetTable == <<
    << "SI", MLT("kilogram", "meter", "second")
                 @@ Extra("ampere", "kelvin", "mole", "candela") >>,
    << "MKS", MLT("kilogram", "meter", "second") >>,
    << "CGS", MLT("gram", "centimeter", "second") >>,
    << "mmkgms", MLT("kilogram", "millimeter", "millisecond") >>,
    << "mmgms", MLT("gram", "millimeter", "millisecond") >>,
    << "nm_ug_ps", MLT("microgram", "nanometer", "picosecond")
                       @@ Extra("nanoampere", "kelvin", "nanomole", "candela") >>,
    << "Imperial", MLT("pound", "inch", "second") >>,
    << "FPS", MLT("pound", "foot", "second") >>,
    << "British", MLT("pound", "inch", "minute") >> >>

\* no caller has registered a preset since the import
Startup ==
    /\ DOMAIN described = {BUILTIN_PRESETS[i].name : i \in BuiltinRefs}
    /\ \A i \in BuiltinRefs :
           described[BUILTIN_PRESETS[i].name] = BUILTIN_PRESETS[i].description

\* C19: as long as no caller has registered a preset, the registry holds
\* exactly the nine built-in presets of the table, in that order, each with
\* the target units of the table and no others.
C19_BuiltinsAtStartup ==
    Startup =>
        /\ Len(PRESETS) = Len(PresetTable)
        /\ \A i \in 1..Len(PresetTable) :
               /\ PRESETS[i][1] = PresetTable[i][1]
               /\ uniUnit(heap[PRESETS[i][2]])._udict = PresetTable[i][2]
               /\ Len(heap[PRESETS[i][2]]) = Cardinality(DOMAIN PresetTable[i][2])

\* C19 witness: before any registration by a caller, list_presets has
\* returned the nine built-in names and get_preset would wrap the table's units
C19_Witness ==
    /\ Startup
    /\ last.op = "list_presets"
    /\ last.result.detail = [i \in 1..Len(PresetTable) |-> PresetTable[i][1]]
    /\ Len(last.result.detail) = 9

\* the specifications stored for the mapping with short symbols and for
\* the mapping with the corresponding long names
ShortUdict == uniUnit(heap[ShortKeys])._udict
LongUdict == uniUnit(heap[LongNames])._udict

\* a mapping with the key of its i-th item replaced
Rekeyed(items, i, key) == [items EXCEPT ![i] = << key, items[i][2] >>]

\* the keys of the lookup table that resolve to the dimension key resolves to
SameDimension(key) ==
    {k \in DOMAIN SHORT_TO_DIMENSION : SHORT_TO_DIMENSION[k] = ResolveKey(key)}

\* replacing any key of the mapping a remapper was built from by a key of
\* the lookup table for the same dimension gives the same stored specification
KeysInterchangeable ==
    last.op = "uniUnit" =>
        \A i \in 1..Len(heap[last.units]) :
            \A k \in SameDimension(heap[last.units][i][1]) :
                uniUnit(Rekeyed(heap[last.units], i, k))._udict
                    = Converter(last.slot)._udict

\* C20: the mapping keyed by short symbols and the mapping keyed by long
\* names build remappers that store the same specification and return the
\* same for every input; keys of the lookup table that resolve to the same
\* dimension are interchangeable.
C20_ShortAndLongSame ==
    /\ (last.op = "uniUnit" /\ last.units \in {ShortKeys, LongNames}) =>
           /\ Converter(last.slot)._udict = ShortUdict
           /\ Converter(last.slot)._udict = LongUdict
    /\ (last.op = "to_unit" /\ Converter(last.slot)._udict \in {ShortUdict, LongUdict}) =>
           /\ last.result = Direct(ShortUdict, last.uin)
           /\ last.result = Direct(LongUdict, last.uin)
    /\ KeysInterchangeable

\* C20 as the code has it: the two remappers store specifications with the
\* same keys and with values that name the same units, not the same
\* strings, and return the same for every input; keys of the lookup table
\* that resolve to the same dimension are interchangeable.
C20_ShortAndLongEquivalent ==
    /\ (last.op = "uniUnit" /\ last.units \in {ShortKeys, LongNames}) =>
           LET _udict == Converter(last.slot)._udict
           IN  /\ DOMAIN _udict = DOMAIN ShortUdict
               /\ DOMAIN _udict = DOMAIN LongUdict
               /\ \A t \in DOMAIN _udict :
                      /\ ParseUnit(_udict[t]) # Undefined
                      /\ ParseUnit(_udict[t]) = ParseUnit(ShortUdict[t])
                      /\ ParseUnit(_udict[t]) = ParseUnit(LongUdict[t])
    /\ (last.op = "to_unit" /\ Converter(last.slot)._udict \in {ShortUdict, LongUdict}) =>
           /\ last.result = Direct(ShortUdict, last.uin)
           /\ last.result = Direct(LongUdict, last.uin)
    /\ KeysInterchangeable

\* C20 witness: the remapper built from {'kg': 'g', 'm': 'mm', 's': 's'}
\* stores 'g' where the long-name mapping stores 'gram' and has converted
\* 1 kg m to 10^6 g mm, as the other does
C20_Witness ==
    /\ last.op = "to_unit"
    /\ Converter(last.slot)._udict = ShortUdict
    /\ ShortUdict["[mass]"] = "g"
    /\ LongUdict["[mass]"] = "gram"
    /\ last.uin = Qty(One, KilogramMeter)
    /\ last.result = Qty(Ten(6), "gram" :> 1 @@ "millimeter" :> 1)
    /\ last.result = Direct(LongUdict, last.uin)

\* the unit a sequential _get_target_unit computes for a signature
Synthesized(_udict, dims_tuple) ==
    Synthesize(_udict, dims_tuple, 1, Target(FALSE, NoUnits))

\* C21: two threads converting at the same time on one remapper, without
\* a lock, each get what a sequential call returns or raises for their
\* input, and every entry of the cache is the unit synthesized for its key.
C21_ConcurrentCallsAgree ==
    /\ \A t \in Threads :
           threads[t].pc = "done" =>
               threads[t].result =
                   Uncached(Converter(threads[t].slot)._udict, threads[t].uin)
    /\ \A s \in Slots :
           \A k \in DOMAIN Converter(s)._target_unit_cache :
               Converter(s)._target_unit_cache[k] = Synthesized(Converter(s)._udict, k)

\* C21 witness: both threads missed the cache for the signature of 1 kg m,
\* both ran the loop and stored, and both calls have returned a quantity
C21_Witness ==
    /\ \A t \in Threads :
           /\ threads[t].pc = "done"
           /\ ~threads[t].hit
           /\ threads[t].uin.units = KilogramMeter
           /\ threads[t].result.type = "Quantity"
    /\ SortedItems(Dimensionality(KilogramMeter))
           \in DOMAIN Converter("u1")._target_unit_cache

\* the signatures of the quantities the remapper is called with
Signatures == {SortedItems(Dimensionality(q.units)) : q \in RepeatQuantities}

\* every entry of the cache is the unit synthesized for its key, a hit
\* hands back whatever is stored under the key, and sorting any order
\* of a signature's items gives the same key
CacheSound ==
    LET self == Converter("u1")
    IN  /\ \A k \in DOMAIN self._target_unit_cache :
               self._target_unit_cache[k] = Synthesized(self._udict, k)
        /\ \A k \in Signatures :
               LET holding == [self EXCEPT !._target_unit_cache =
                                  k :> Target(TRUE, Dim("pound"))]
               IN  _get_target_unit(holding, k) =
                       [res |-> Target(TRUE, Dim("pound")), self |-> holding]
        /\ \A q \in RepeatQuantities :
               \A order \in ItemOrders(Dimensionality(q.units)) :
                   Sorted(order) = SortedItems(Dimensionality(q.units))

\* a get_new_unit call on a quantity: a hit returns the stored unit and
\* leaves the cache as it is; a miss returns the unit synthesized and
\* stores it under the sorted signature, or raises and stores nothing
CacheStep ==
    (last = Idle /\ last'.op = "get_new_unit") =>
        LET self == Converter(last'.slot)
            cache == self._target_unit_cache
            after == objects'[last'.slot]._converter._target_unit_cache
            key == SortedItems(Dimensionality(last'.uin.units))
            computed == Synthesized(self._udict, key)
        IN  IF key \in DOMAIN cache
            THEN last'.result = Returned(cache[key]) /\ after = cache
            ELSE /\ last'.result = Returned(computed)
                 /\ after = IF computed.ok THEN StoreEntry(cache, key, computed)
                            ELSE cache

\* C22: every cache entry maps a sorted dimension signature to the unit
\* the synthesis computes for it from the specification; a hit returns
\* the stored unit, a miss computes, stores under the tuple and returns;
\* the key is the signature sorted by dimension whatever the order in
\* which the input hands out its dimensions.
C22_CacheProtocol == []CacheSound /\ [][CacheStep]_vars

\* C22 witness: after to_unit stored the target of kg m, get_new_unit on
\* the same signature hit the entry, and the cache holds a second entry
C22_Witness ==
    /\ last.op = "get_new_unit"
    /\ kept.op = "to_unit" /\ kept.slot = last.slot
    /\ kept.uin.units = KilogramMeter /\ last.uin.units = KilogramMeter
    /\ last.result = Qty(One, "gram" :> 1 @@ "millimeter" :> 1)
    /\ Cardinality(DOMAIN Converter(last.slot)._target_unit_cache) >= 2
    /\ SortedItems(Dimensionality(KilogramMeter))
           \in DOMAIN Converter(last.slot)._target_unit_cache

\* the keys of a mapping object
KeysOf(ref) == {heap[ref][i][1] : i \in 1..Len(heap[ref])}

\* the magnitude of 1 b in the unit named target, or 1.0 when a name does
\* not parse or the dimensions differ
FactorTo(b, target) ==
    IF ParseUnit(b) = Undefined \/ ParseUnit(target) = Undefined THEN Num(One)
    ELSE LET converted == To(Qty(One, Dim(ParseUnit(b))), Dim(ParseUnit(target)))
         IN  IF IsError(converted) THEN Num(One) ELSE Num(converted.mag)

\* C23: get_conversion_factor(b) on a remapper built from a mapping that
\* has the base unit name b as a key returns the magnitude of 1 b in the
\* unit the mapping gives for b; it returns 1.0 only when b is not a key
\* of the mapping or the conversion fails.
C23_FactorOfMappedBase ==
    last.op = "get_conversion_factor" =>
        \A r \in FactorRefs :
            Converter(last.slot)._udict = uniUnit(heap[r])._udict =>
                last.result = IF last.name \in KeysOf(r)
                              THEN FactorTo(last.name, ValueOf(r, last.name))
                              ELSE Num(One)

\* C24: to_unit treats every magnitude alike: for a quantity of magnitude
\* 1, as for any other, the result is uin.to(target_unit), whether the
\* synthesized target is a unit (the dimensionless case) or a quantity.
C24_MagnitudeOneAsGeneralPath ==
    (last.op = "to_unit" /\ last.uin.type = "Quantity") =>
        LET target == UncachedTarget(Converter(last.slot)._udict, last.uin)
        IN  target.ok => last.result = To(last.uin, target.units)

\* C24 witness: 1 dozen, of magnitude 1 and with a target that is the
\* unit dimensionless, has been converted to 12
C24_Witness ==
    /\ last.op = "to_unit"
    /\ last.uin = Qty(One, Dim("dozen"))
    /\ ~UncachedTarget(Converter(last.slot)._udict, last.uin).isQuantity
    /\ last.result = Qty(RInt(12), NoUnits)

CoreQuickConvert(value, from_system, to_system) ==
    IF ~Has(PRESETS, from_system) THEN NotFound(from_system)
    ELSE IF ~Has(PRESETS, to_system) THEN NotFound(to_system)
    ELSE Chain(objects, UnitSystem(from_system, Lookup(PRESETS, from_system), ""), "",
               UnitSystem(to_system, Lookup(PRESETS, to_system), ""), "", value).result

\* C26: a route answers a failure of the core with a client error whose
\* detail is the text of the failure: the preset route answers an
\* unregistered name with the text of the not-found failure, which lists
\* the names available; the quick-convert route answers a failure of
\* quick_convert with its text, and does not answer with an error a bare
\* number between two registered presets, which the core returns unchanged.
C26_RoutesForwardFailures ==
    /\ (last.op = "GET /api/units/presets/{name}" /\ ~Has(PRESETS, last.name)) =>
            /\ last.result.err \in {"400", "404"}
            /\ last.result.detail = Text(NotFound(last.name))
    /\ last.op = "POST /api/quick-convert" =>
            LET core == CoreQuickConvert(last.uin, last.from, last.name)
            IN  IF IsError(core)
                THEN /\ last.result.err \in {"400", "404"}
                     /\ last.result.detail = Text(core)
                ELSE last.result.err = "200"

\* the step binds the slot s to a new instance
Rebinds(s) ==
    /\ last = Idle
    /\ last'.op \in {"uniUnit", "UnitSystem", "get_preset"}
    /\ last'.slot = s

\* C27: the specification of a remapper is fixed at construction: no
\* step that leaves an instance in its slot changes its _udict, be it a
\* to_unit, get_new_unit or get_conversion_factor call, a register_preset
\* that replaces the preset the instance came from, or the caller changing
\* the mapping object the instance was built from; and the instance
\* converts with that _udict.
C27_SpecificationFixed ==
    [][/\ \A s \in Slots :
             ~Rebinds(s) =>
                 objects'[s]._converter._udict = objects[s]._converter._udict
       /\ (last = Idle /\ last'.op = "to_unit") =>
             last'.result = Uncached(Converter(last'.slot)._udict, last'.uin)]_vars

\* C27 witness: the mapping object the unit system of u1 was built from
\* now says gram for kilogram, the stored specification does not, and
\* to_unit has just converted 1 kg with the specification as it was built
C27_Witness ==
    /\ last.op = "to_unit" /\ last.slot = "u1"
    /\ objects["u1"].name = "SI"
    /\ ValueOf(objects["u1"].units, "kilogram") = "gram"
    /\ Converter("u1")._udict["[mass]"] = "kilogram"
    /\ last.uin = Qty(One, Dim("kilogram"))
    /\ last.result = Qty(One, Dim("kilogram"))

\* the mapping a get_preset(name) would wrap, with the registry and the
\* mapping objects given
PresetItems(presets, objs, name) == objs[Lookup(presets, name)]

\* C28: what the registry holds under a name is isolated from callers:
\* when a caller changes a mapping object, be it the units of a unit
\* system that get_preset returned or an object it passed to
\* register_preset, a later get_preset of any registered name wraps the
\* same mapping as before the change.
C28_RegistryIsolated ==
    [][heap' # heap =>
          \A i \in 1..Len(PRESETS) :
              PresetItems(PRESETS', heap', PRESETS[i][1])
                  = PresetItems(PRESETS, heap, PRESETS[i][1])]_vars

\* the places of the items of a mapping whose key resolves to dim
PlacesOf(items, dim) == {i \in 1..Len(items) : ResolveKey(items[i][1]) = dim}

\* C29: construction from a mapping in which several keys resolve to one
\* dimension does not fail, and the target stored for each dimension is
\* the value of the last key, in the mapping's order, that resolves to
\* it; the values of the earlier keys are dropped.
C29_LastKeyWins ==
    last.op = "uniUnit" =>
        LET items == heap[last.units]
            _udict == Converter(last.slot)._udict
        IN  /\ last.result = None
            /\ DOMAIN _udict = {ResolveKey(items[i][1]) : i \in 1..Len(items)}
            /\ \A dim \in DOMAIN _udict :
                   \E i \in PlacesOf(items, dim) :
                       /\ \A j \in PlacesOf(items, dim) : j <= i
                       /\ _udict[dim] = items[i][2]

\* C29 witness: a remapper has been built from {'kg': 'g', 'gram': 'mg'},
\* whose two keys resolve to [mass], and mg is stored for [mass]
C29_Witness ==
    /\ last.op = "uniUnit"
    /\ heap[last.units] = << Item("kg", "g"), Item("gram", "mg") >>
    /\ Cardinality(PlacesOf(heap[last.units], "[mass]")) = 2
    /\ Converter(last.slot)._udict = "[mass]" :> "mg"

====
